---- MODULE Spec2Model ----
(***************************************************************************)
(* Metrics computation core of credit-portfolio-analysis.                  *)
(*                                                                         *)
(* Part 2 (orders): the revenue decomposition of                           *)
(*   src/src/part_2_orders_data_analysis/orders_data_processor.py          *)
(* and the cohort economics of                                             *)
(*   src/src/part_2_orders_data_analysis/orders_data_analyzer.py           *)
(* Part 1 (loan tape): the status priority resolver of src/src/metrics.py  *)
(* and the business/vintage aggregation, the monthly portfolio metrics and *)
(* the yield calculator of                                                 *)
(*   src/src/part_1_loan_tape_analysis/loan_tape_metrics.py                *)
(*                                                                         *)
(* Amounts are Python floats in the source; the model keeps them as        *)
(* integers (whole currency units), which is exact for the sums and        *)
(* differences the decomposition performs.                                 *)
(***************************************************************************)
EXTENDS Integers, Sequences, FiniteSets, TLC

VARIABLES
    raw,        \* the raw cell handed to the three decomposition functions
    outG,       \* result of _extract_total_amount(raw)
    outR,       \* result of _parse_refunds(raw)
    outD,       \* result of _parse_discounts(raw)
    csv,        \* the orders file: a sequence of rows of raw cell texts
    df,         \* what load_orders_data returned (or that it raised)
    statuses,   \* the Series handed to metrics.py's _get_priority_status
    resolved,   \* what it returned
    tape,       \* the loan tape handed to calculate_business_metrics
    bizRows,    \* the rows it returned
    snapshots,  \* the loan tape handed to calculate_portfolio_metrics
    date_range, \* its start_date and end_date arguments
    monthly,    \* the list of monthly metrics it returned
    ydata,      \* the loan tape a YieldMetricsCalculator is built from
    filter_active, \* the flag handed to calculate_all_yield_metrics
    yields,     \* the dictionary it returned
    accounts,   \* the balance and fee columns of the tape of calculate_business_metrics
    aprRows,    \* the avgAPR column of the rows it returned
    orders,     \* OrdersAnalyzer.orders_data
    bank,       \* OrdersAnalyzer.bank_transactions
    analysis,   \* what analyze_orders returned (or that it raised)
    analyzer,   \* an OrdersAnalyzer instance: its lazily loaded frames and caches
    loan_analyzer, \* a LoanPortfolioAnalyzer instance: its data and cached metrics
    lru_cache,  \* the functools.lru_cache of each decomposition function
    returned    \* the last call made on an instance or cache, and what it returned

portfolioVars == <<snapshots, date_range, monthly>>
yieldVars == <<ydata, filter_active, yields>>
aprVars == <<accounts, aprRows>>
analyzerVars == <<orders, bank, analysis>>
instanceVars == <<analyzer, loan_analyzer, lru_cache, returned>>

vars ==
    <<raw, outG, outR, outD, csv, df, statuses, resolved, tape, bizRows,
      portfolioVars, yieldVars, aprVars, analyzerVars, instanceVars>>

(***************************************************************************)
(* Bounds of the model.                                                    *)
(***************************************************************************)
MaxAmount == 2
MaxItems == 2
MaxOrders == 2
MaxStatuses == 3
MaxRecords == 3

(***************************************************************************)
(* Raw text.  A str is modelled as its sequence of lexemes; every lexeme   *)
(* is a record [t, s, v]:                                                  *)
(*   t \in { "[", "]", "{", "}", ",", ":" }  punctuation                   *)
(*   t = "num"     a JSON number literal of value v          10            *)
(*   t = "str"     a JSON string literal; s = "#" stands for a numeric     *)
(*                 text of value v ("10.00"), any other s is the text      *)
(*   t = "null" / "true" / "false"   the JSON literals                     *)
(*   t = "lznum"   digits that are no JSON number but that float()         *)
(*                 accepts, of value v                       007  .5       *)
(*   t = "dotted"  digits, dots and dashes that float() rejects   1.2.3    *)
(*   t = "word"    any other bare text                       abc           *)
(***************************************************************************)
Tok(t, s, v) == [t |-> t, s |-> s, v |-> v]
P(c) == Tok(c, "", 0)
Num(n) == Tok("num", "", n)
Str(s) == Tok("str", s, 0)
NumText(n) == Tok("str", "#", n)
Null == Tok("null", "", 0)
JTrue == Tok("true", "", 0)
LzNum(n) == Tok("lznum", "", n)
Dotted == Tok("dotted", "", 0)
Word == Tok("word", "", 0)

(***************************************************************************)
(* json.loads: a recursive-descent parse of the lexemes.  A parse returns  *)
(* [ok, val, nxt]; values are                                              *)
(*   [k |-> "num", v], [k |-> "bool", v], [k |-> "str", s, v],             *)
(*   [k |-> "null"], [k |-> "list", items], [k |-> "obj", members]         *)
(* with members a sequence of [key, val] in source order.                  *)
(***************************************************************************)
ParseFail == [ok |-> FALSE, val |-> [k |-> "null"], nxt |-> 0]
ParseOk(val, nxt) == [ok |-> TRUE, val |-> val, nxt |-> nxt]

RECURSIVE ParseValue(_, _)
RECURSIVE ParseElements(_, _, _)
RECURSIVE ParseMembers(_, _, _)

ParseValue(toks, i) ==
    IF i > Len(toks) THEN ParseFail
    ELSE LET tok == toks[i] IN
         CASE tok.t = "num" -> ParseOk([k |-> "num", v |-> tok.v], i + 1)
           [] tok.t = "str" -> ParseOk([k |-> "str", s |-> tok.s, v |-> tok.v], i + 1)
           [] tok.t = "null" -> ParseOk([k |-> "null"], i + 1)
           [] tok.t = "true" -> ParseOk([k |-> "bool", v |-> 1], i + 1)
           [] tok.t = "false" -> ParseOk([k |-> "bool", v |-> 0], i + 1)
           [] tok.t = "[" ->
                IF i + 1 <= Len(toks) /\ toks[i + 1].t = "]"
                THEN ParseOk([k |-> "list", items |-> <<>>], i + 2)
                ELSE ParseElements(toks, i + 1, <<>>)
           [] tok.t = "{" ->
                IF i + 1 <= Len(toks) /\ toks[i + 1].t = "}"
                THEN ParseOk([k |-> "obj", members |-> <<>>], i + 2)
                ELSE ParseMembers(toks, i + 1, <<>>)
           [] OTHER -> ParseFail

ParseElements(toks, i, acc) ==
    LET r == ParseValue(toks, i) IN
    IF ~r.ok \/ r.nxt > Len(toks) THEN ParseFail
    ELSE LET items == Append(acc, r.val) IN
         CASE toks[r.nxt].t = "," -> ParseElements(toks, r.nxt + 1, items)
           [] toks[r.nxt].t = "]" -> ParseOk([k |-> "list", items |-> items], r.nxt + 1)
           [] OTHER -> ParseFail

ParseMembers(toks, i, acc) ==
    IF i + 1 > Len(toks) \/ toks[i].t # "str" \/ toks[i + 1].t # ":" THEN ParseFail
    ELSE LET r == ParseValue(toks, i + 2) IN
         IF ~r.ok \/ r.nxt > Len(toks) THEN ParseFail
         ELSE LET members == Append(acc, [key |-> toks[i].s, val |-> r.val]) IN
              CASE toks[r.nxt].t = "," -> ParseMembers(toks, r.nxt + 1, members)
                [] toks[r.nxt].t = "}" ->
                     ParseOk([k |-> "obj", members |-> members], r.nxt + 1)
                [] OTHER -> ParseFail

\* json.loads(text): one value and nothing after it, else JSONDecodeError.
JsonLoads(toks) ==
    LET r == ParseValue(toks, 1) IN
    IF r.ok /\ r.nxt = Len(toks) + 1 THEN r ELSE ParseFail

\* `key in d` and d[key] of a parsed object (a later duplicate key wins).
HasKey(obj, key) == \E i \in 1..Len(obj.members) : obj.members[i].key = key
GetKey(obj, key) ==
    LET last == CHOOSE i \in 1..Len(obj.members) :
                    /\ obj.members[i].key = key
                    /\ \A j \in (i + 1)..Len(obj.members) : obj.members[j].key # key
    IN obj.members[last].val

(***************************************************************************)
(* Python values.  A raw cell is [py, toks, v]:                            *)
(*   py = "nan"         a missing cell (float NaN; pd.isna is true)        *)
(*   py = "str"         a str, of lexemes toks ('' is the empty sequence)  *)
(*   py = "num"         a number that is no str (a cell of a numeric       *)
(*                      column), of value v                                *)
(*   py = "unhashable"  a list or dict object                              *)
(* A call's outcome is [k, e, v]: a float v, None, or an exception e that  *)
(* left the function.                                                      *)
(***************************************************************************)
PyNaN == [py |-> "nan", toks |-> <<>>, v |-> 0]
PyStr(toks) == [py |-> "str", toks |-> toks, v |-> 0]
PyNum(n) == [py |-> "num", toks |-> <<>>, v |-> n]
PyUnhashable == [py |-> "unhashable", toks |-> <<>>, v |-> 0]

Float(v) == [k |-> "float", e |-> "", v |-> v]
NoneVal == [k |-> "None", e |-> "", v |-> 0]
Raise(e) == [k |-> "raise", e |-> e, v |-> 0]
Pending == [k |-> "pending", e |-> "", v |-> 0]

\* float(x) of a parsed JSON value.
PyFloat(jv) ==
    CASE jv.k \in {"num", "bool"} -> Float(jv.v)
      [] jv.k = "str" -> IF jv.s = "#" THEN Float(jv.v) ELSE Raise("ValueError")
      [] OTHER -> Raise("TypeError")

\* value.replace('.', '').replace('-', '').isdigit()
IsDigitText(toks) == Len(toks) = 1 /\ toks[1].t \in {"num", "lznum", "dotted"}

\* float(value) of a str that passed the isdigit test.
FloatOfText(toks) ==
    IF toks[1].t = "dotted" THEN Raise("ValueError") ELSE Float(toks[1].v)

\* The handler of the inner try: the raw value read as a numeric string.
NumericStringFallback(value) ==
    IF value.py # "str" THEN Raise("AttributeError")
    ELSE IF IsDigitText(value.toks) THEN FloatOfText(value.toks)
    ELSE Float(0)

\* Mutant of RefundKeys: the discounts' order pasted into the refunds.
RefundKeysAmountFirst == <<"amount", "shop_amount", "presentment_amount">>

\* The field preference of refunds.
RefundKeys == <<"shop_amount", "presentment_amount", "amount">>

\* Mutant of DiscountKeys: the refunds' order pasted into the discounts.
DiscountKeysShopFirst == <<"shop_amount", "presentment_amount", "amount">>

\* The field preference of discounts.
DiscountKeys == <<"amount", "shop_amount", "presentment_amount">>

\* The if/elif chain over the three fields: float() of the first field of
\* `keys` the object holds; with none of them no branch is taken.
FirstKey(obj, keys) ==
    LET present == {i \in 1..Len(keys) : HasKey(obj, keys[i])}
    IN IF present = {} THEN 0
       ELSE CHOOSE i \in present : \A j \in present : i <= j

ResolveObject(obj, keys) ==
    LET i == FirstKey(obj, keys)
    IN IF i = 0 THEN NoneVal ELSE PyFloat(GetKey(obj, keys[i]))

\* Mutant of SumItems: `total =` instead of `total +=`, so only the last
\* element counts.
RECURSIVE SumItemsLastOnly(_, _, _, _)
SumItemsLastOnly(items, i, total, keys) ==
    IF i > Len(items) THEN Float(total)
    ELSE IF items[i].k = "obj" /\ FirstKey(items[i], keys) # 0
         THEN LET r == ResolveObject(items[i], keys)
              IN IF r.k = "raise" THEN r
                 ELSE SumItemsLastOnly(items, i + 1, r.v, keys)
         ELSE SumItemsLastOnly(items, i + 1, total, keys)

\* The loop over a parsed list: total += float(item[field]) for each dict
\* item; the first exception leaves the loop.
RECURSIVE SumItems(_, _, _, _)
SumItems(items, i, total, keys) ==
    IF i > Len(items) THEN Float(total)
    ELSE IF items[i].k = "obj" /\ FirstKey(items[i], keys) # 0
         THEN LET r == ResolveObject(items[i], keys)
              IN IF r.k = "raise" THEN r
                 ELSE SumItems(items, i + 1, total + r.v, keys)
         ELSE SumItems(items, i + 1, total, keys)

\* The inner try block of _parse_refunds / _parse_discounts.
ParseJsonAmount(value, keys) ==
    IF value.py # "str" THEN Raise("TypeError")
    ELSE LET r == JsonLoads(value.toks) IN
         IF ~r.ok THEN Raise("JSONDecodeError")
         ELSE CASE r.val.k \in {"num", "bool"} -> Float(r.val.v)
                [] r.val.k = "obj" -> ResolveObject(r.val, keys)
                [] r.val.k = "list" /\ Len(r.val.items) > 0 ->
                     SumItems(r.val.items, 1, 0, keys)
                [] OTHER -> Float(0)

\* The body shared, line for line, by _parse_refunds and _parse_discounts.
ParseAmount(value, keys) ==
    IF value.py = "unhashable" THEN Raise("TypeError")
    ELSE IF value.py = "nan" \/ (value.py = "str" /\ value.toks = <<>>) THEN Float(0)
    ELSE LET inner == ParseJsonAmount(value, keys)
             handled == IF inner.k = "raise" /\ inner.e \in {"JSONDecodeError", "TypeError"}
                        THEN NumericStringFallback(value)
                        ELSE inner
         IN IF handled.k = "raise" /\ handled.e \in {"ValueError", "TypeError"}
            THEN Float(0)
            ELSE handled

_parse_refunds(value) == ParseAmount(value, RefundKeys)

_parse_discounts(value) == ParseAmount(value, DiscountKeys)

\* price_set['shop_amount'] of one line item, when the item carries it.
HasShopAmount(item) ==
    /\ item.k = "obj"
    /\ HasKey(item, "price_set")
    /\ GetKey(item, "price_set").k = "obj"
    /\ HasKey(GetKey(item, "price_set"), "shop_amount")

ShopAmount(item) == GetKey(GetKey(item, "price_set"), "shop_amount")

\* Mutant of SumLineItems: the try placed inside the loop, so an item whose
\* amount is no number is skipped and the partial sum returned.
RECURSIVE SumLineItemsSkipBad(_, _, _)
SumLineItemsSkipBad(items, i, total) ==
    IF i > Len(items) THEN Float(total)
    ELSE IF HasShopAmount(items[i])
         THEN LET r == PyFloat(ShopAmount(items[i]))
              IN IF r.k = "raise" THEN SumLineItemsSkipBad(items, i + 1, total)
                 ELSE SumLineItemsSkipBad(items, i + 1, total + r.v)
         ELSE SumLineItemsSkipBad(items, i + 1, total)

\* The loop over the line items.
RECURSIVE SumLineItems(_, _, _)
SumLineItems(items, i, total) ==
    IF i > Len(items) THEN Float(total)
    ELSE IF HasShopAmount(items[i])
         THEN LET r == PyFloat(ShopAmount(items[i]))
              IN IF r.k = "raise" THEN r
                 ELSE SumLineItems(items, i + 1, total + r.v)
         ELSE SumLineItems(items, i + 1, total)

\* The try block of _extract_total_amount.
ExtractBody(value) ==
    IF value.py = "nan" THEN Float(0)
    ELSE IF value.py # "str" THEN Raise("TypeError")
    ELSE LET r == JsonLoads(value.toks) IN
         IF ~r.ok THEN Raise("JSONDecodeError")
         ELSE CASE r.val.k = "list" -> SumLineItems(r.val.items, 1, 0)
                [] r.val.k \in {"obj", "str"} -> Float(0)
                [] OTHER -> Raise("TypeError")

_extract_total_amount(value) ==
    IF value.py = "unhashable" THEN Raise("TypeError")
    ELSE LET r == ExtractBody(value)
         IN IF r.k = "raise" /\ r.e \in {"JSONDecodeError", "ValueError", "TypeError"}
            THEN Float(0)
            ELSE r

(***************************************************************************)
(* load_orders_data.  The file is a sequence of rows [line_items, refunds, *)
(* discounts] of cell texts (the empty text is an empty cell).             *)
(* pd.read_csv types each column: a column whose non-empty cells are all   *)
(* bare numbers is numeric and its cells reach the parsers as numbers, any *)
(* other column holds str cells; an empty cell is NaN either way.          *)
(* A column of the returned frame holds floats, or a missing value where   *)
(* the parser returned None (pandas keeps None as NaN in a float column    *)
(* and as a null in an object column; arithmetic gives NaN for both and    *)
(* sum() skips both).                                                      *)
(***************************************************************************)
Missing == [k |-> "nan", e |-> "", v |-> 0]
DfPending == [k |-> "pending", e |-> "", rows |-> <<>>]

Column(file, name) == [i \in 1..Len(file) |-> file[i][name]]

IsBareNumber(text) == Len(text) = 1 /\ text[1].t = "num"
NumericColumn(cells) ==
    \A i \in 1..Len(cells) : cells[i] = <<>> \/ IsBareNumber(cells[i])

\* pd.read_csv: one column of the file as the Python values of its cells.
ReadCsvColumn(cells) ==
    [i \in 1..Len(cells) |->
        IF cells[i] = <<>> THEN PyNaN
        ELSE IF NumericColumn(cells) THEN PyNum(cells[i][1].v)
        ELSE PyStr(cells[i])]

\* A parser's result as the frame holds it.
Held(r) == IF r.k = "None" THEN Missing ELSE r

\* x - y of two held values: NaN if either is missing.
Sub(x, y) == IF x.k = "float" /\ y.k = "float" THEN Float(x.v - y.v) ELSE Missing

\* df['net_revenue'] = df['gross_amount'] - df['refunds'] - df['discounts']
NetRevenue(gross, refunds, discounts) == Sub(Sub(gross, refunds), discounts)

\* The exception Series.apply lets through: that of the first cell whose
\* call raised.
FirstRaised(results) ==
    results[CHOOSE i \in 1..Len(results) :
                results[i].k = "raise" /\ \A j \in 1..(i - 1) : results[j].k # "raise"]
AnyRaised(results) == \E i \in 1..Len(results) : results[i].k = "raise"
Failed(r) == [k |-> "raise", e |-> r.e, rows |-> <<>>]

load_orders_data(file) ==
    LET lineItems == ReadCsvColumn(Column(file, "line_items"))
        refunds == ReadCsvColumn(Column(file, "refunds"))
        discounts == ReadCsvColumn(Column(file, "discounts"))
        g == [i \in 1..Len(file) |-> _extract_total_amount(lineItems[i])]
        r == [i \in 1..Len(file) |-> _parse_refunds(refunds[i])]
        d == [i \in 1..Len(file) |-> _parse_discounts(discounts[i])]
    IN IF AnyRaised(g) THEN Failed(FirstRaised(g))
       ELSE IF AnyRaised(r) THEN Failed(FirstRaised(r))
       ELSE IF AnyRaised(d) THEN Failed(FirstRaised(d))
       ELSE [k |-> "ok", e |-> "",
             rows |-> [i \in 1..Len(file) |->
                          [gross_amount |-> Held(g[i]),
                           refunds |-> Held(r[i]),
                           discounts |-> Held(d[i]),
                           net_revenue |-> NetRevenue(Held(g[i]), Held(r[i]), Held(d[i]))]]]

\* Series.sum() of one column of the frame: missing values are skipped.
RECURSIVE SumFrom(_, _, _)
SumFrom(rows, name, i) ==
    IF i > Len(rows) THEN 0
    ELSE (IF rows[i][name].k = "float" THEN rows[i][name].v ELSE 0)
         + SumFrom(rows, name, i + 1)
ColumnSum(rows, name) == SumFrom(rows, name, 1)

(***************************************************************************)
(* The raw cells the decomposition is exercised on: every shape the orders *)
(* file can hold (absent, empty, malformed, bare number, object, list,     *)
(* nested line items) written out as text.                                 *)
(***************************************************************************)
RECURSIVE Join(_, _)
\* The texts of `parts` separated by commas.
Join(parts, i) ==
    IF i > Len(parts) THEN <<>>
    ELSE IF i = Len(parts) THEN parts[i]
    ELSE parts[i] \o <<P(",")>> \o Join(parts, i + 1)

ListText(parts) == <<P("[")>> \o Join(parts, 1) \o <<P("]")>>
Member(key, valText) == <<Str(key), P(":")>> \o valText
ObjText(members) == <<P("{")>> \o Join(members, 1) \o <<P("}")>>

\* Values a field may hold: amounts as numbers or numeric texts, a boolean,
\* and the two kinds float() rejects.
AmountTokens == {Num(a) : a \in 0..MaxAmount} \cup {NumText(a) : a \in 1..MaxAmount}
FieldTokens == AmountTokens \cup {JTrue, Str("abc"), Null}
Absent == Tok("absent", "", 0)

\* The members of an object holding the chosen fields; the text order
\* (presentment_amount, amount, shop_amount) is neither preference order.
FieldMembers(pres, amt, shop) ==
    (IF pres = Absent THEN <<>> ELSE <<Member("presentment_amount", <<pres>>)>>)
    \o (IF amt = Absent THEN <<>> ELSE <<Member("amount", <<amt>>)>>)
    \o (IF shop = Absent THEN <<>> ELSE <<Member("shop_amount", <<shop>>)>>)

ObjectTexts ==
    {ObjText(FieldMembers(pres, amt, shop)) :
        pres \in FieldTokens \cup {Absent},
        amt \in FieldTokens \cup {Absent},
        shop \in FieldTokens \cup {Absent}}
    \cup {ObjText(<<Member("foo", <<Num(1)>>)>>)}

\* Elements of a refunds/discounts list: objects over every subset of the
\* three fields (their values differ, so the sum tells which was taken), an
\* element that is no object, and elements whose field float() rejects.
ElementTexts ==
    {ObjText(FieldMembers(IF p THEN Num(a + 1) ELSE Absent,
                          IF m THEN Num(a + 2) ELSE Absent,
                          IF s THEN Num(a) ELSE Absent)) :
        p \in BOOLEAN, m \in BOOLEAN, s \in BOOLEAN, a \in 1..MaxAmount}
    \cup {<<Num(1)>>,
          ObjText(<<Member("foo", <<Num(1)>>)>>),
          ObjText(FieldMembers(Absent, Str("abc"), Str("abc"))),
          ObjText(FieldMembers(Absent, Null, Null))}

\* Line items: with a price_set holding a shop_amount, with a price_set
\* that holds none or is no object, without price_set, and no object at all.
PriceSet(valText) == ObjText(<<Member("price_set", valText)>>)
ItemTexts ==
    {PriceSet(ObjText(<<Member("shop_amount", <<t>>)>>)) : t \in FieldTokens}
    \cup {PriceSet(ObjText(<<>>)),
          PriceSet(ObjText(<<Member("presentment_amount", <<Num(1)>>)>>)),
          PriceSet(<<Num(1)>>),
          ObjText(<<Member("foo", <<Num(1)>>)>>),
          <<Num(1)>>}

SeqsUpTo(S, n) == UNION {[1..m -> S] : m \in 0..n}

ListTexts == {ListText(parts) : parts \in SeqsUpTo(ElementTexts, MaxItems)}
LineItemTexts == {ListText(parts) : parts \in SeqsUpTo(ItemTexts, MaxItems)}

\* Bare scalars, and text json.loads rejects: other words, digit runs that
\* are no JSON number, two values in a row, a trailing comma, and every
\* truncation of a well-formed list of line items.
ScalarTexts ==
    {<<t>> : t \in AmountTokens \cup {JTrue, Str("abc"), Null}}
MalformedTexts ==
    {<<Word>>, <<Dotted>>, <<Num(1), Num(1)>>,
     <<P("["), Num(1), P(","), P("]")>>,
     <<P("{"), Str("amount"), Num(1), P("}")>>}
    \cup {<<LzNum(a)>> : a \in 1..MaxAmount}
    \cup {SubSeq(t, 1, n) : t \in {ListText(<<PriceSet(ObjText(<<Member("shop_amount", <<Num(1)>>)>>))>>),
                                    ListText(<<ObjText(FieldMembers(Absent, Num(1), Num(2)))>>)},
                             n \in 1..10}

RawInputs ==
    {PyNaN, PyUnhashable}
    \cup {PyNum(a) : a \in 0..MaxAmount}
    \cup {PyStr(t) : t \in {<<>>} \cup ScalarTexts \cup MalformedTexts
                          \cup ObjectTexts \cup ListTexts \cup LineItemTexts}

(***************************************************************************)
(* SpecDecomp: the three decomposition functions applied to one raw cell.  *)
(***************************************************************************)
IdleOrders == csv = <<>> /\ df = DfPending
IdleResolver == statuses = <<>> /\ resolved = ""
BizPending == [k |-> "pending", rows |-> <<>>]
IdleBusiness == tape = <<>> /\ bizRows = BizPending
NotCalled == [k |-> "pending"]
IdlePortfolio == snapshots = <<>> /\ date_range = <<>> /\ monthly = NotCalled
IdleYield == ydata = <<>> /\ filter_active = FALSE /\ yields = NotCalled
IdleApr == accounts = <<>> /\ aprRows = NotCalled
IdleAnalyzer == orders = <<>> /\ bank = <<>> /\ analysis = NotCalled
IdleInstances ==
    /\ analyzer = NotCalled /\ loan_analyzer = NotCalled
    /\ lru_cache = NotCalled /\ returned = NotCalled
IdleMetrics == IdlePortfolio /\ IdleYield /\ IdleApr /\ IdleAnalyzer

InitDecomp ==
    /\ raw \in RawInputs
    /\ outG = Pending /\ outR = Pending /\ outD = Pending
    /\ IdleOrders /\ IdleResolver /\ IdleBusiness /\ IdleMetrics
    /\ IdleInstances

ExtractTotalAmount ==
    /\ outG = Pending
    /\ outG' = _extract_total_amount(raw)
    /\ UNCHANGED <<raw, outR, outD, csv, df, statuses, resolved, tape, bizRows,
                   portfolioVars, yieldVars, aprVars, analyzerVars,
                   instanceVars>>

ParseRefunds ==
    /\ outR = Pending
    /\ outR' = _parse_refunds(raw)
    /\ UNCHANGED <<raw, outG, outD, csv, df, statuses, resolved, tape, bizRows,
                   portfolioVars, yieldVars, aprVars, analyzerVars,
                   instanceVars>>

ParseDiscounts ==
    /\ outD = Pending
    /\ outD' = _parse_discounts(raw)
    /\ UNCHANGED <<raw, outG, outR, csv, df, statuses, resolved, tape, bizRows,
                   portfolioVars, yieldVars, aprVars, analyzerVars,
                   instanceVars>>

NextDecomp == ExtractTotalAmount \/ ParseRefunds \/ ParseDiscounts

SpecDecomp == InitDecomp /\ [][NextDecomp]_vars

(***************************************************************************)
(* Claims about the decomposition functions (checked under SpecDecomp).    *)
(***************************************************************************)
\* What the raw cell parses to, when it is a str.
RawParses == raw.py = "str" /\ JsonLoads(raw.toks).ok
Parsed == JsonLoads(raw.toks).val
RawIsObject == RawParses /\ Parsed.k = "obj"
RawIsList == RawParses /\ Parsed.k = "list"

\* A field value float() accepts, and the float it gives.
Numeric(jv) == jv.k \in {"num", "bool"} \/ (jv.k = "str" /\ jv.s = "#")
Has(o, key) == o.k = "obj" /\ HasKey(o, key)
Holds(o, key, x) == Has(o, key) /\ Numeric(GetKey(o, key)) /\ GetKey(o, key).v = x

\* C2: when the raw refund parses to an object, _parse_refunds returns the
\* value of shop_amount if present, else of presentment_amount if present,
\* else of amount (a value float() accepts is returned as that float; a
\* present field float() rejects gives 0.0 and never the next field).
C2_RefundPreference ==
    (outR # Pending /\ RawIsObject) =>
        LET o == Parsed
            field == IF Has(o, "shop_amount") THEN "shop_amount"
                     ELSE IF Has(o, "presentment_amount") THEN "presentment_amount"
                     ELSE "amount"
        IN Has(o, field) =>
              IF Numeric(GetKey(o, field))
              THEN outR = Float(GetKey(o, field).v)
              ELSE outR = Float(0)

\* C2 witness: an object holding shop_amount and presentment_amount with
\* different amounts was parsed and shop_amount won.
C2_Witness ==
    /\ outR # Pending /\ RawIsObject
    /\ Holds(Parsed, "shop_amount", 1) /\ Holds(Parsed, "presentment_amount", 2)
    /\ ~Has(Parsed, "amount")
    /\ outR = Float(1)

\* C3: when the raw discount parses to an object, _parse_discounts returns
\* the value of amount if present, else of shop_amount, else of
\* presentment_amount; an object holding both amount and shop_amount
\* resolves to amount as a discount and to shop_amount as a refund.
C3_DiscountPreference ==
    /\ (outD # Pending /\ RawIsObject) =>
          LET o == Parsed
              field == IF Has(o, "amount") THEN "amount"
                       ELSE IF Has(o, "shop_amount") THEN "shop_amount"
                       ELSE "presentment_amount"
          IN Has(o, field) =>
                IF Numeric(GetKey(o, field))
                THEN outD = Float(GetKey(o, field).v)
                ELSE outD = Float(0)
    /\ (outD # Pending /\ outR # Pending /\ RawIsObject
          /\ Has(Parsed, "amount") /\ Numeric(GetKey(Parsed, "amount"))
          /\ Has(Parsed, "shop_amount") /\ Numeric(GetKey(Parsed, "shop_amount"))) =>
          /\ outD = Float(GetKey(Parsed, "amount").v)
          /\ outR = Float(GetKey(Parsed, "shop_amount").v)

\* C3 witness: one object with amount 1 and shop_amount 2 resolved to 1 as a
\* discount and to 2 as a refund.
C3_Witness ==
    /\ outD # Pending /\ outR # Pending /\ RawIsObject
    /\ Holds(Parsed, "amount", 1) /\ Holds(Parsed, "shop_amount", 2)
    /\ outD = Float(1) /\ outR = Float(2)

\* C4: for every raw input, each of the three functions returns a number
\* and never raises, and an input that cannot be decomposed yields 0.0.
Decomposable ==
    RawParses /\ (Parsed.k \in {"num", "bool", "obj", "list"})
C4_NeverRaises ==
    \A out \in {outG, outR, outD} :
        out # Pending => (out.k = "float" /\ (~Decomposable => out.v = 0))

\* C4 divergence: a number that is no str makes _parse_refunds raise.
C4_BareNumberRaises ==
    raw.py = "num" /\ outR = Raise("AttributeError") /\ outG = Float(0)

\* C5: when a raw refund or discount parses to an object holding none of
\* shop_amount, presentment_amount and amount, the resolved amount is 0.
NoAmountField(o) ==
    ~Has(o, "shop_amount") /\ ~Has(o, "presentment_amount") /\ ~Has(o, "amount")
C5_NoFieldIsZero ==
    (RawIsObject /\ NoAmountField(Parsed)) =>
        /\ (outR # Pending => outR = Float(0))
        /\ (outD # Pending => outD = Float(0))

\* C5 divergence: such an object makes both functions return None.
C5_NoFieldIsNone ==
    RawIsObject /\ NoAmountField(Parsed) /\ outR = NoneVal /\ outD = NoneVal

\* The amount of one list element under a preference order, written out as
\* the claim states it (0 for an element with none of the fields).
Preferred(o, k1, k2, k3) ==
    IF Has(o, k1) THEN k1 ELSE IF Has(o, k2) THEN k2 ELSE IF Has(o, k3) THEN k3 ELSE ""
ElementAmount(o, k1, k2, k3) ==
    IF Preferred(o, k1, k2, k3) = "" THEN 0 ELSE GetKey(o, Preferred(o, k1, k2, k3)).v
ElementNumeric(o, k1, k2, k3) ==
    Preferred(o, k1, k2, k3) = "" \/ Numeric(GetKey(o, Preferred(o, k1, k2, k3)))
RECURSIVE SumOfElements(_, _, _, _)
SumOfElements(items, k1, k2, k3) ==
    IF items = <<>> THEN 0
    ELSE ElementAmount(Head(items), k1, k2, k3) + SumOfElements(Tail(items), k1, k2, k3)

\* C6: when the raw value parses to a list, the result is the sum over the
\* elements of each element's amount by the same preference as for a single
\* object (an element with none of the fields contributes 0); an empty list
\* yields 0.  (Stated for lists whose chosen fields float() accepts.)
C6_ListSum ==
    RawIsList =>
        LET items == Parsed.items IN
        /\ (outR # Pending
              /\ \A i \in 1..Len(items) :
                    ElementNumeric(items[i], "shop_amount", "presentment_amount", "amount"))
            => outR = Float(SumOfElements(items, "shop_amount", "presentment_amount", "amount"))
        /\ (outD # Pending
              /\ \A i \in 1..Len(items) :
                    ElementNumeric(items[i], "amount", "shop_amount", "presentment_amount"))
            => outD = Float(SumOfElements(items, "amount", "shop_amount", "presentment_amount"))

\* C6 witness: a two-element list whose elements each hold several fields
\* was summed, to different totals as a refund and as a discount.
C6_Witness ==
    /\ RawIsList /\ Len(Parsed.items) = 2
    /\ Holds(Parsed.items[1], "shop_amount", 1) /\ Holds(Parsed.items[1], "amount", 3)
    /\ Holds(Parsed.items[2], "presentment_amount", 2) /\ ~Has(Parsed.items[2], "shop_amount")
    /\ Holds(Parsed.items[2], "amount", 3)
    /\ outR = Float(3) /\ outD = Float(6)

\* A line item that carries the nested price structure, and its amount.
Priced(item) ==
    /\ Has(item, "price_set")
    /\ Has(GetKey(item, "price_set"), "shop_amount")
PriceOf(item) == GetKey(GetKey(item, "price_set"), "shop_amount")
RECURSIVE SumOfPrices(_)
SumOfPrices(items) ==
    IF items = <<>> THEN 0
    ELSE (IF Priced(Head(items)) THEN PriceOf(Head(items)).v ELSE 0)
         + SumOfPrices(Tail(items))

\* C7: _extract_total_amount returns the sum of the shop amount of exactly
\* the line items carrying a nested price structure; a parse failure
\* anywhere (malformed text, or one item's amount that is no number) makes
\* the whole order 0.0, not the partial sum.
C7_GrossAmount ==
    (outG # Pending /\ raw.py = "str") =>
        IF RawIsList
        THEN LET items == Parsed.items IN
             IF \A i \in 1..Len(items) : Priced(items[i]) => Numeric(PriceOf(items[i]))
             THEN outG = Float(SumOfPrices(items))
             ELSE outG = Float(0)
        ELSE ~RawParses => outG = Float(0)

\* C7 witness: an order with one item priced 2 and one item whose amount is
\* no number came out as 0.0.
C7_Witness ==
    /\ outG = Float(0) /\ RawIsList /\ Len(Parsed.items) = 2
    /\ Priced(Parsed.items[1]) /\ Numeric(PriceOf(Parsed.items[1]))
    /\ PriceOf(Parsed.items[1]).v = 2
    /\ Priced(Parsed.items[2]) /\ ~Numeric(PriceOf(Parsed.items[2]))

(***************************************************************************)
(* SpecOrders: load_orders_data applied to one orders file.                *)
(***************************************************************************)
PricedLineItems(g) ==
    ListText(<<PriceSet(ObjText(<<Member("shop_amount", <<NumText(g)>>)>>))>>)

LineItemCells == {<<>>, <<Word>>} \cup {PricedLineItems(g) : g \in 1..MaxAmount}
RefundCells ==
    {<<>>, ObjText(<<>>)}
    \cup {<<Num(a)>> : a \in 1..MaxAmount}
    \cup {ObjText(FieldMembers(Absent, Absent, NumText(a))) : a \in 1..MaxAmount}
DiscountCells ==
    {<<>>, ObjText(<<>>)}
    \cup {<<Num(a)>> : a \in 1..MaxAmount}
    \cup {ObjText(FieldMembers(Absent, NumText(a), Absent)) : a \in 1..MaxAmount}

CsvRows == [line_items : LineItemCells, refunds : RefundCells, discounts : DiscountCells]

InitOrders ==
    /\ csv \in SeqsUpTo(CsvRows, MaxOrders)
    /\ df = DfPending
    /\ raw = PyNaN /\ outG = Pending /\ outR = Pending /\ outD = Pending
    /\ IdleResolver /\ IdleBusiness /\ IdleMetrics
    /\ IdleInstances

LoadOrdersData ==
    /\ df = DfPending
    /\ df' = load_orders_data(csv)
    /\ UNCHANGED <<raw, outG, outR, outD, csv, statuses, resolved, tape, bizRows,
                   portfolioVars, yieldVars, aprVars, analyzerVars,
                   instanceVars>>

NextOrders == LoadOrdersData

SpecOrders == InitOrders /\ [][NextOrders]_vars

\* C1: for every order load_orders_data produces, net_revenue is
\* gross_amount - refunds - discounts exactly, unclamped; hence total net
\* revenue = total gross - total refunds - total discounts.
C1_NetRevenueExact ==
    df.k = "ok" =>
        /\ \A i \in 1..Len(df.rows) :
              LET o == df.rows[i] IN
              /\ o.gross_amount.k = "float" /\ o.refunds.k = "float"
              /\ o.discounts.k = "float" /\ o.net_revenue.k = "float"
              /\ o.net_revenue.v = o.gross_amount.v - o.refunds.v - o.discounts.v
        /\ ColumnSum(df.rows, "net_revenue")
              = ColumnSum(df.rows, "gross_amount") - ColumnSum(df.rows, "refunds")
                  - ColumnSum(df.rows, "discounts")

\* C1 divergence: an order whose refunds cell is an object without any of the
\* three fields is produced with a missing net revenue, and the totals
\* no longer add up.
C1_MissingNetRevenue ==
    /\ df.k = "ok"
    /\ \E i \in 1..Len(df.rows) :
          /\ df.rows[i].gross_amount.k = "float" /\ df.rows[i].discounts.k = "float"
          /\ df.rows[i].refunds = Missing /\ df.rows[i].net_revenue = Missing
    /\ ColumnSum(df.rows, "net_revenue")
          # ColumnSum(df.rows, "gross_amount") - ColumnSum(df.rows, "refunds")
              - ColumnSum(df.rows, "discounts")

(***************************************************************************)
(* The status priority resolver of src/metrics.py.                         *)
(***************************************************************************)
RecognizedStatuses == {"Closed", "Current", "Delinquent", "Default", "ChargedOff"}

\* A status outside the enum, as an unvalidated tape may carry.
StatusValues == RecognizedStatuses \cup {"Paused"}

\* Mutant of priority_order: Current listed before Closed.
priority_order_current_first == <<"Current", "Closed", "Delinquent", "Default", "ChargedOff">>

priority_order == <<"Closed", "Current", "Delinquent", "Default", "ChargedOff">>

\* The loop `for status in priority_order: if status in statuses.values`.
RECURSIVE FirstInOrder(_, _, _)
FirstInOrder(order, i, values) ==
    IF i > Len(order) THEN "Current"
    ELSE IF \E n \in 1..Len(values) : values[n] = order[i] THEN order[i]
    ELSE FirstInOrder(order, i + 1, values)

\* metrics.py: BusinessMetricsCalculator._get_priority_status(statuses).
metrics_get_priority_status(values) == FirstInOrder(priority_order, 1, values)

InitResolver ==
    /\ statuses \in SeqsUpTo(StatusValues, MaxStatuses)
    /\ resolved = ""
    /\ raw = PyNaN /\ outG = Pending /\ outR = Pending /\ outD = Pending
    /\ IdleOrders /\ IdleBusiness /\ IdleMetrics
    /\ IdleInstances

GetPriorityStatus ==
    /\ resolved = ""
    /\ resolved' = metrics_get_priority_status(statuses)
    /\ UNCHANGED <<raw, outG, outR, outD, csv, df, statuses, tape, bizRows,
                   portfolioVars, yieldVars, aprVars, analyzerVars,
                   instanceVars>>

NextResolver == GetPriorityStatus

SpecResolver == InitResolver /\ [][NextResolver]_vars

\* The highest-priority status of a set under
\* Closed > Current > Delinquent > Default > ChargedOff, Current when the
\* set holds none of them.
HighestPriority(S) ==
    IF "Closed" \in S THEN "Closed"
    ELSE IF "Current" \in S THEN "Current"
    ELSE IF "Delinquent" \in S THEN "Delinquent"
    ELSE IF "Default" \in S THEN "Default"
    ELSE IF "ChargedOff" \in S THEN "ChargedOff"
    ELSE "Current"

\* C8: the resolver returns the first status of Closed, Current, Delinquent,
\* Default, ChargedOff that occurs in the collection, and Current when the
\* collection is empty or holds no recognized status.
C8_PriorityResolution ==
    resolved # "" =>
        resolved = HighestPriority({statuses[n] : n \in 1..Len(statuses)})

\* C8 witness: {ChargedOff, Current, Default} in some order resolved to
\* Current.
C8_Witness ==
    /\ resolved = "Current"
    /\ {statuses[n] : n \in 1..Len(statuses)} = {"ChargedOff", "Current", "Default"}

\* C8 witness of the fallback: a collection of unrecognized statuses only.
C8_FallbackReached ==
    /\ resolved = "Current" /\ Len(statuses) > 0
    /\ \A n \in 1..Len(statuses) : statuses[n] \notin RecognizedStatuses

(***************************************************************************)
(* calculate_business_metrics of loan_tape_metrics.py: the grouping by     *)
(* (businessGuid, vintage_month), the status of each group, the account    *)
(* count, and the ordering of the returned rows.  A tape record is         *)
(* [businessGuid, vintage, accountEndingStatus]: business identifiers are  *)
(* numbered in their string order, vintage is the month of                 *)
(* accountActivatedAt, NaT when the date is missing.                       *)
(***************************************************************************)
NaT == 0
Businesses == {1, 2}
VintageMonths == {1, 2}
TapeRecords ==
    [businessGuid : Businesses, vintage : VintageMonths \cup {NaT},
     accountEndingStatus : StatusValues]

\* loan_tape_metrics.py: BusinessMetricsCalculator._get_priority_status(status).
loan_tape_get_priority_status(status) ==
    IF status \in RecognizedStatuses THEN status ELSE "Unknown"

\* The order of the status strings under Python's string comparison, which
\* Series.mode() sorts its result by.
StringOrder ==
    [ChargedOff |-> 1, Closed |-> 2, Current |-> 3, Default |-> 4,
     Delinquent |-> 5, Unknown |-> 6]

\* The records of one group, as indices of the tape; groupby leaves out the
\* records whose key is missing.
GroupOf(data, b, v) ==
    {n \in 1..Len(data) : data[n].businessGuid = b /\ data[n].vintage = v}
GroupKeys(data) ==
    {<<data[n].businessGuid, data[n].vintage>> :
        n \in {m \in 1..Len(data) : data[m].vintage # NaT}}

\* x.mode().iloc[0]: the most frequent status of the group, the first in
\* string order among equally frequent ones.
ModeStatus(data, members) ==
    LET st(n) == loan_tape_get_priority_status(data[n].accountEndingStatus)
        count(s) == Cardinality({n \in members : st(n) = s})
        present == {st(n) : n \in members}
        modes == {s \in present : \A u \in present : count(u) <= count(s)}
    IN CHOOSE s \in modes : \A u \in modes : StringOrder[s] <= StringOrder[u]

\* One row of the aggregation.
GroupRow(data, key) ==
    [businessGuid |-> key[1],
     vintage_month |-> key[2],
     primaryStatus |-> ModeStatus(data, GroupOf(data, key[1], key[2])),
     accountCount |-> Cardinality(GroupOf(data, key[1], key[2]))]

\* groupby(...).agg(...).reset_index(): one row per group, keys ascending.
RECURSIVE GroupedRows(_, _)
GroupedRows(data, keys) ==
    IF keys = {} THEN <<>>
    ELSE LET least == CHOOSE k \in keys :
                          \A o \in keys : k[1] < o[1] \/ (k[1] = o[1] /\ k[2] <= o[2])
         IN <<GroupRow(data, least)>> \o GroupedRows(data, keys \ {least})

\* The sort key of a status: status_priority, NaN (sorted last) for a
\* status the map does not hold.
status_priority ==
    [Closed |-> 1, Current |-> 2, Delinquent |-> 3, Default |-> 4, ChargedOff |-> 5]
PriorityKey(status) ==
    IF status \in DOMAIN status_priority THEN status_priority[status]
    ELSE Cardinality(DOMAIN status_priority) + 1

\* Mutant of Before: the rows sorted by business and vintage month only.
BeforeWithoutStatus(r1, r2) ==
    \/ r1.businessGuid < r2.businessGuid
    \/ /\ r1.businessGuid = r2.businessGuid
       /\ r1.vintage_month > r2.vintage_month

\* sort_values(['businessGuid', 'status_priority', 'vintage_month'],
\*             ascending=[True, True, False]): whether r1 sorts before r2.
Before(r1, r2) ==
    \/ r1.businessGuid < r2.businessGuid
    \/ /\ r1.businessGuid = r2.businessGuid
       /\ \/ PriorityKey(r1.primaryStatus) < PriorityKey(r2.primaryStatus)
          \/ /\ PriorityKey(r1.primaryStatus) = PriorityKey(r2.primaryStatus)
             /\ r1.vintage_month > r2.vintage_month

\* The sort itself: each row inserted behind the rows that sort before it.
RECURSIVE InsertRow(_, _)
InsertRow(sorted, row) ==
    IF sorted = <<>> THEN <<row>>
    ELSE IF Before(row, Head(sorted)) THEN <<row>> \o sorted
    ELSE <<Head(sorted)>> \o InsertRow(Tail(sorted), row)
RECURSIVE SortValues(_, _)
SortValues(rows, acc) ==
    IF rows = <<>> THEN acc
    ELSE SortValues(Tail(rows), InsertRow(acc, Head(rows)))

calculate_business_metrics(data) ==
    [k |-> "ok", rows |-> SortValues(GroupedRows(data, GroupKeys(data)), <<>>)]

InitBusiness ==
    /\ \E m \in 0..MaxRecords : tape \in [1..m -> TapeRecords]
    /\ bizRows = BizPending
    /\ raw = PyNaN /\ outG = Pending /\ outR = Pending /\ outD = Pending
    /\ IdleOrders /\ IdleResolver /\ IdleMetrics
    /\ IdleInstances

CalculateBusinessMetrics ==
    /\ bizRows = BizPending
    /\ bizRows' = calculate_business_metrics(tape)
    /\ UNCHANGED <<raw, outG, outR, outD, csv, df, statuses, resolved, tape,
                   portfolioVars, yieldVars, aprVars, analyzerVars,
                   instanceVars>>

NextBusiness == CalculateBusinessMetrics

SpecBusiness == InitBusiness /\ [][NextBusiness]_vars

\* The statuses of the tape records of a row's group.
StatusesOfGroup(row) ==
    {tape[n].accountEndingStatus :
        n \in {m \in 1..Len(tape) : /\ tape[m].businessGuid = row.businessGuid
                                     /\ tape[m].vintage = row.vintage_month}}
CountInGroup(row, status) ==
    Cardinality({m \in 1..Len(tape) : /\ tape[m].businessGuid = row.businessGuid
                                       /\ tape[m].vintage = row.vintage_month
                                       /\ tape[m].accountEndingStatus = status})

\* C9: the status reported for each (business, vintage month) group is the
\* highest-priority status present among the group's records under
\* Closed > Current > Delinquent > Default > ChargedOff, however many
\* records carry each status.  (Stated for groups of recognized statuses.)
C9_GroupStatusByPriority ==
    bizRows.k = "ok" =>
        \A i \in 1..Len(bizRows.rows) :
            LET row == bizRows.rows[i] IN
            StatusesOfGroup(row) \subseteq RecognizedStatuses
            => row.primaryStatus = HighestPriority(StatusesOfGroup(row))

\* C9 divergence: a group of two Delinquent records and one Current record
\* is reported Delinquent.
C9_MajorityWins ==
    /\ bizRows.k = "ok"
    /\ \E i \in 1..Len(bizRows.rows) :
          LET row == bizRows.rows[i] IN
          /\ CountInGroup(row, "Delinquent") = 2
          /\ CountInGroup(row, "Current") = 1
          /\ row.accountCount = 3
          /\ row.primaryStatus = "Delinquent"

\* The place of a row's status in the claimed order; a status outside it
\* comes after the five.
ClaimedPriority(status) ==
    CASE status = "Closed" -> 1
      [] status = "Current" -> 2
      [] status = "Delinquent" -> 3
      [] status = "Default" -> 4
      [] status = "ChargedOff" -> 5
      [] OTHER -> 6

\* C10: the returned rows are ordered by business identifier ascending,
\* then by the row's status priority (Closed, Current, Delinquent, Default,
\* ChargedOff), then by vintage month descending; of two rows of one
\* business, a Current row precedes a Delinquent row whatever their vintage
\* months.
C10_RowOrder ==
    bizRows.k = "ok" =>
        \A i \in 1..Len(bizRows.rows), j \in 1..Len(bizRows.rows) :
            LET a == bizRows.rows[i]
                b == bizRows.rows[j]
            IN /\ i < j =>
                    \/ a.businessGuid < b.businessGuid
                    \/ /\ a.businessGuid = b.businessGuid
                       /\ ClaimedPriority(a.primaryStatus) < ClaimedPriority(b.primaryStatus)
                    \/ /\ a.businessGuid = b.businessGuid
                       /\ ClaimedPriority(a.primaryStatus) = ClaimedPriority(b.primaryStatus)
                       /\ a.vintage_month > b.vintage_month
               /\ (a.businessGuid = b.businessGuid /\ a.primaryStatus = "Current"
                     /\ b.primaryStatus = "Delinquent") => i < j

\* C10 witness: within one business a Current row of the older vintage
\* stands before a Delinquent row of the newer vintage, and the other
\* business's row follows.
C10_Witness ==
    /\ bizRows.k = "ok" /\ Len(bizRows.rows) = 3
    /\ bizRows.rows[1].businessGuid = 1 /\ bizRows.rows[2].businessGuid = 1
    /\ bizRows.rows[1].primaryStatus = "Current" /\ bizRows.rows[1].vintage_month = 1
    /\ bizRows.rows[2].primaryStatus = "Delinquent" /\ bizRows.rows[2].vintage_month = 2
    /\ bizRows.rows[3].businessGuid = 2

(***************************************************************************)
(* Ratios.  The source divides Python floats; the model keeps a quotient   *)
(* as an exact fraction in lowest terms with a positive denominator, so    *)
(* two quotients are equal exactly when their fractions are.               *)
(***************************************************************************)
Abs(x) == IF x < 0 THEN -x ELSE x

RECURSIVE GCD(_, _)
GCD(a, b) == IF b = 0 THEN a ELSE GCD(b, a % b)

Rat(n, d) ==
    LET g == GCD(Abs(n), Abs(d))
        sign == IF d < 0 THEN -1 ELSE 1
    IN [n |-> (sign * n) \div g, d |-> (sign * d) \div g]
RatOfInt(i) == [n |-> i, d |-> 1]
RatMul(a, b) == Rat(a.n * b.n, a.d * b.d)
RatDiv(a, b) == Rat(a.n * b.d, a.d * b.n)
RatSub(a, b) == Rat(a.n * b.d - b.n * a.d, a.d * b.d)
RatPositive(a) == a.n > 0

(***************************************************************************)
(* PortfolioMetricsCalculator.calculate_portfolio_metrics of               *)
(* loan_tape_metrics.py.  A snapshot is [month, ending,                    *)
(* accountEndingStatus, balance, lineFees, interchange]: month is the      *)
(* calendar month of snapshotEndingAt (NaT when the period end is          *)
(* missing), ending its place within that month, balance is                *)
(* accountDailyAveragePrincipalBalance, which the tape may hold negative.  *)
(***************************************************************************)
MaxSnapshots == 2

NoDate == 0
Months == {1, 2}
LoanStatuses == {"Closed", "Current", "Delinquent", "Default", "ChargedOff"}
Balances == {-1, 0, 2}
LineFees == {0, 1}
Interchanges == {3}
Endings == {"first day 00:00", "last day 00:00", "last day 12:00"}
\* The tape's snapshots: periods that end at midnight of a month's last day.
Snapshots ==
    [month : Months, ending : {"last day 00:00"},
     accountEndingStatus : LoanStatuses, balance : Balances,
     lineFees : LineFees, interchange : Interchanges]
DateRanges ==
    {[start_date |-> NoDate, end_date |-> NoDate],
     [start_date |-> 2, end_date |-> 2]}

\* group[mask]: the rows of a frame whose status is one of a list.
RECURSIVE WithStatus(_, _)
WithStatus(group, listed) ==
    IF group = <<>> THEN <<>>
    ELSE IF Head(group).accountEndingStatus \in listed
         THEN <<Head(group)>> \o WithStatus(Tail(group), listed)
         ELSE WithStatus(Tail(group), listed)

\* Series.sum() of one column of a frame.
RECURSIVE SumColumn(_, _)
SumColumn(group, column) ==
    IF group = <<>> THEN 0
    ELSE Head(group)[column] + SumColumn(Tail(group), column)

\* Mutant of num_mask_statuses: Default records earn revenue too.
num_mask_with_default == {"Current", "Delinquent", "Default"}
\* Mutant of denom_mask_statuses: ChargedOff balances counted.
denom_mask_with_charged_off == {"Current", "Delinquent", "Default", "ChargedOff"}

denom_mask_statuses == {"Current", "Delinquent", "Default"}
num_mask_statuses == {"Current", "Delinquent"}

\* (total_revenue / portfolio_size) * 12 if portfolio_size > 0 else 0
MonthlyGrossYield(total_revenue, portfolio_size) ==
    IF portfolio_size > 0
    THEN RatMul(Rat(total_revenue, portfolio_size), RatOfInt(12))
    ELSE RatOfInt(0)

\* count / total_accounts if total_accounts > 0 else 0
StatusRate(count, total_accounts) ==
    IF total_accounts > 0 THEN Rat(count, total_accounts) ELSE RatOfInt(0)

_calculate_monthly_metrics(group) ==
    LET total_accounts == Len(group)
        delinquent_accounts == Len(WithStatus(group, {"Delinquent"}))
        defaulted_accounts == Len(WithStatus(group, {"Default"}))
        charged_off_accounts == Len(WithStatus(group, {"ChargedOff"}))
        closed_accounts == Len(WithStatus(group, {"Closed"}))
        current_accounts == Len(WithStatus(group, {"Current"}))
        portfolio_size ==
            SumColumn(WithStatus(group, denom_mask_statuses), "balance")
        total_revenue ==
            SumColumn(WithStatus(group, num_mask_statuses), "lineFees")
            + SumColumn(WithStatus(group, num_mask_statuses), "interchange")
        gross_yield == MonthlyGrossYield(total_revenue, portfolio_size)
    IN [total_accounts |-> total_accounts,
        current_accounts |-> current_accounts,
        delinquent_accounts |-> delinquent_accounts,
        defaulted_accounts |-> defaulted_accounts,
        charged_off_accounts |-> charged_off_accounts,
        closed_accounts |-> closed_accounts,
        delinquency_rate |-> StatusRate(delinquent_accounts, total_accounts),
        default_rate |-> StatusRate(defaulted_accounts, total_accounts),
        charge_off_rate |-> StatusRate(charged_off_accounts, total_accounts),
        portfolio_size |-> portfolio_size,
        total_revenue |-> total_revenue,
        gross_yield |-> gross_yield,
        net_yield |-> RatSub(gross_yield, Rat(10, 100))]

RECURSIVE InMonths(_, _)
InMonths(data, months) ==
    IF data = <<>> THEN <<>>
    ELSE IF Head(data).month \in months
         THEN <<Head(data)>> \o InMonths(Tail(data), months)
         ELSE InMonths(Tail(data), months)

\* snapshotEndingAt >= start_dt, with start_dt the first day of the start
\* month at 00:00; a comparison with NaT is False.
NotBeforeStart(row, start_date) == row.month # NaT /\ row.month >= start_date

\* snapshotEndingAt <= end_dt, with end_dt the first day of the end month
\* plus one month minus one day: the last day of the end month at 00:00.
NotAfterEnd(row, end_date) ==
    /\ row.month # NaT
    /\ \/ row.month < end_date
       \/ row.month = end_date /\ row.ending # "last day 12:00"

_filter_by_date_range(data, start_date, end_date) ==
    LET from == IF start_date # NoDate
                THEN SelectSeq(data, LAMBDA row : NotBeforeStart(row, start_date))
                ELSE data
    IN IF end_date # NoDate
       THEN SelectSeq(from, LAMBDA row : NotAfterEnd(row, end_date))
       ELSE from

\* for month, group in data.groupby('month'): the months ascending.
RECURSIVE MonthlyMetrics(_, _)
MonthlyMetrics(data, months) ==
    IF months = {} THEN <<>>
    ELSE LET month == CHOOSE m \in months : \A o \in months : m <= o
             metrics == _calculate_monthly_metrics(InMonths(data, {month}))
         IN <<[month |-> month, metrics |-> metrics]>>
            \o MonthlyMetrics(data, months \ {month})

calculate_portfolio_metrics(data, start_date, end_date) ==
    LET filtered ==
            IF start_date # NoDate \/ end_date # NoDate
            THEN _filter_by_date_range(data, start_date, end_date)
            ELSE data
    IN [k |-> "ok",
        rows |-> MonthlyMetrics(filtered,
                     {filtered[n].month : n \in 1..Len(filtered)} \ {NaT})]

InitPortfolio ==
    /\ \E m \in 0..MaxSnapshots : snapshots \in [1..m -> Snapshots]
    /\ date_range \in DateRanges
    /\ monthly = NotCalled
    /\ raw = PyNaN /\ outG = Pending /\ outR = Pending /\ outD = Pending
    /\ IdleOrders /\ IdleResolver /\ IdleBusiness
    /\ IdleYield /\ IdleApr /\ IdleAnalyzer
    /\ IdleInstances

CalculatePortfolioMetrics ==
    /\ monthly = NotCalled
    /\ monthly' = calculate_portfolio_metrics(snapshots, date_range.start_date,
                                              date_range.end_date)
    /\ UNCHANGED <<raw, outG, outR, outD, csv, df, statuses, resolved, tape,
                   bizRows, snapshots, date_range, yieldVars, aprVars,
                   analyzerVars, instanceVars>>

NextPortfolio == CalculatePortfolioMetrics

SpecPortfolio == InitPortfolio /\ [][NextPortfolio]_vars

\* The snapshots that reach a month's group: those of the month that the
\* date range lets through.
InRange(n) ==
    /\ date_range.start_date # NoDate => snapshots[n].month >= date_range.start_date
    /\ date_range.end_date # NoDate => snapshots[n].month <= date_range.end_date
Contributing(month, listed) ==
    {n \in 1..Len(snapshots) : /\ snapshots[n].month = month
                               /\ InRange(n)
                               /\ snapshots[n].accountEndingStatus \in listed}

\* The sum of a column over a set of snapshots, each taken once.
RECURSIVE SumOnce(_, _)
SumOnce(indices, column) ==
    IF indices = {} THEN 0
    ELSE LET n == CHOOSE i \in indices : TRUE
         IN snapshots[n][column] + SumOnce(indices \ {n}, column)

\* C11: in every month group portfolio_size is the sum of the average daily
\* balance over exactly the Current, Delinquent and Default records, and
\* total_revenue the sum of line fees plus card interchange over exactly the
\* Current and Delinquent records, each record counted once; ChargedOff and
\* Closed records contribute to neither.
C11_MaskedSums ==
    monthly.k = "ok" =>
        \A i \in 1..Len(monthly.rows) :
            LET row == monthly.rows[i]
                balanceOf == Contributing(row.month, {"Current", "Delinquent", "Default"})
                revenueOf == Contributing(row.month, {"Current", "Delinquent"})
            IN /\ row.metrics.portfolio_size = SumOnce(balanceOf, "balance")
               /\ row.metrics.total_revenue =
                      SumOnce(revenueOf, "lineFees") + SumOnce(revenueOf, "interchange")

\* C11 witness: a month holding a Default record with revenue and a
\* ChargedOff record with a balance next to nothing else, where the Default
\* balance is counted, its revenue is not, and the ChargedOff record adds
\* nothing.
C11_Witness ==
    /\ monthly.k = "ok" /\ Len(monthly.rows) = 1 /\ Len(snapshots) = 2
    /\ snapshots[1].accountEndingStatus = "Default"
    /\ snapshots[1].balance = 2 /\ snapshots[1].lineFees = 1
    /\ snapshots[2].accountEndingStatus = "ChargedOff"
    /\ snapshots[2].balance = 2 /\ snapshots[2].interchange = 3
    /\ snapshots[1].month = snapshots[2].month
    /\ monthly.rows[1].metrics.total_accounts = 2
    /\ monthly.rows[1].metrics.portfolio_size = 2
    /\ monthly.rows[1].metrics.total_revenue = 0

\* C11 witness of the other mask: two Current records of one month, both
\* counted once in the balance and in the revenue.
C11_BothCounted ==
    /\ monthly.k = "ok" /\ Len(monthly.rows) = 1 /\ Len(snapshots) = 2
    /\ \A n \in 1..2 : /\ snapshots[n].accountEndingStatus = "Current"
                       /\ snapshots[n].balance = 2
                       /\ snapshots[n].lineFees = 1 /\ snapshots[n].interchange = 3
    /\ monthly.rows[1].metrics.portfolio_size = 4
    /\ monthly.rows[1].metrics.total_revenue = 8

\* C12: in every month group gross_yield is (total_revenue /
\* portfolio_size) * 12 whenever portfolio_size is not 0, and 0 when it
\* is 0.
C12_GrossYield ==
    monthly.k = "ok" =>
        \A i \in 1..Len(monthly.rows) :
            LET metrics == monthly.rows[i].metrics
            IN IF metrics.portfolio_size # 0
               THEN metrics.gross_yield
                    = Rat(metrics.total_revenue * 12, metrics.portfolio_size)
               ELSE metrics.gross_yield = RatOfInt(0)

\* C12 divergence: a month whose balance sums to less than 0, with revenue,
\* is given a gross_yield of 0.
C12_NegativeBalanceYieldsZero ==
    /\ monthly.k = "ok"
    /\ \E i \in 1..Len(monthly.rows) :
          /\ monthly.rows[i].metrics.portfolio_size < 0
          /\ monthly.rows[i].metrics.total_revenue > 0
          /\ monthly.rows[i].metrics.gross_yield = RatOfInt(0)

\* Where the balance of the month is positive or 0 the yield is as C12
\* says: the quotient times 12, and 0 for a balance of 0 whatever the
\* revenue.
C12_HoldsFromZeroUp ==
    monthly.k = "ok" =>
        \A i \in 1..Len(monthly.rows) :
            LET metrics == monthly.rows[i].metrics
            IN /\ metrics.portfolio_size > 0 =>
                    metrics.gross_yield
                    = Rat(metrics.total_revenue * 12, metrics.portfolio_size)
               /\ metrics.portfolio_size = 0 => metrics.gross_yield = RatOfInt(0)

(***************************************************************************)
(* YieldMetricsCalculator of loan_tape_metrics.py: the six yield           *)
(* calculations behind calculate_all_yield_metrics.  The calculator is     *)
(* built from the frame LoanDataProcessor produced, whose currency columns *)
(* are floats already and whose dates are timestamps or NaT.  A row is     *)
(* [accountEndingStatus, snapshotBeginningAt, snapshotEndingAt (day        *)
(* numbers, NaT when missing), account, line, card (the three daily        *)
(* average principal balances), lineFees, interchange, rewards].           *)
(***************************************************************************)
MaxYieldRows == 2

YieldBalances ==
    {[account |-> 5, line |-> 2, card |-> 3],
     [account |-> 3, line |-> 0, card |-> 3],
     [account |-> 0, line |-> 0, card |-> 0],
     [account |-> -1, line |-> 0, card |-> -1]}
YieldPeriods ==
    {[snapshotBeginningAt |-> 1, snapshotEndingAt |-> 1],
     [snapshotBeginningAt |-> 1, snapshotEndingAt |-> 31],
     [snapshotBeginningAt |-> NaT, snapshotEndingAt |-> 31]}
YieldRows ==
    {[accountEndingStatus |-> st,
      snapshotBeginningAt |-> pd.snapshotBeginningAt,
      snapshotEndingAt |-> pd.snapshotEndingAt,
      account |-> bal.account, line |-> bal.line, card |-> bal.card,
      lineFees |-> 1, interchange |-> 3, rewards |-> 2] :
        st \in LoanStatuses, pd \in YieldPeriods, bal \in YieldBalances}

\* _parse_currency on a cell that holds a number: float(value).
_parse_currency(value) == value

\* _preprocess_data: the currency columns parsed, the dates kept.
yield_preprocess_data(data) ==
    [n \in 1..Len(data) |->
        [data[n] EXCEPT !.account = _parse_currency(@),
                        !.line = _parse_currency(@),
                        !.card = _parse_currency(@),
                        !.lineFees = _parse_currency(@),
                        !.interchange = _parse_currency(@),
                        !.rewards = _parse_currency(@)]]

RECURSIVE WithoutStatus(_, _)
WithoutStatus(frame, status) ==
    IF frame = <<>> THEN <<>>
    ELSE IF Head(frame).accountEndingStatus # status
         THEN <<Head(frame)>> \o WithoutStatus(Tail(frame), status)
         ELSE WithoutStatus(Tail(frame), status)

\* Mutant of _get_filtered_data: the pre-filter drops the Default records,
\* which the balance mask includes.
filtered_without_default(data, active) ==
    IF active THEN WithoutStatus(data, "Default") ELSE data

_get_filtered_data(data, active) ==
    IF active THEN WithoutStatus(data, "ChargedOff") ELSE data

\* df['period_days']: the days between the two dates clipped to at least
\* 1, as a set holding the number, empty where a date is missing (NaN).
period_days(row) ==
    IF row.snapshotBeginningAt = NaT \/ row.snapshotEndingAt = NaT THEN {}
    ELSE LET days == row.snapshotEndingAt - row.snapshotBeginningAt
         IN {IF days < 1 THEN 1 ELSE days}

\* Mutant of PeriodRows: the period lengths of the denominator's records.
PeriodRowsOfDenominator(frame) == WithStatus(frame, denom_mask_statuses)

\* df.loc[num_mask, 'period_days']
PeriodRows(frame) == WithStatus(frame, num_mask_statuses)

\* Series.mean() skips NaN: the sum and the count of the known lengths.
RECURSIVE KnownDays(_)
KnownDays(rows) ==
    IF rows = <<>> THEN [sum |-> 0, count |-> 0]
    ELSE LET rest == KnownDays(Tail(rows))
             here == period_days(Head(rows))
         IN IF here = {} THEN rest
            ELSE [sum |-> rest.sum + (CHOOSE d \in here : TRUE),
                  count |-> rest.count + 1]

\* avg_period_days, 30 where the mean is NaN or 0.
avg_period_days(frame) ==
    LET known == KnownDays(PeriodRows(frame))
    IN IF known.count = 0 \/ known.sum = 0 THEN RatOfInt(30)
       ELSE Rat(known.sum, known.count)

annualization_factor(frame) == RatDiv(RatOfInt(365), avg_period_days(frame))

\* (revenue / balance) * (365 / avg_period_days) if balance > 0 else 0
AnnualizedYield(revenue, balance, frame) ==
    IF balance > 0
    THEN RatMul(Rat(revenue, balance), annualization_factor(frame))
    ELSE RatOfInt(0)

\* (costs / revenue * 100) if revenue > 0 else 0
CostRatio(costs, revenue) ==
    IF revenue > 0 THEN RatMul(Rat(costs, revenue), RatOfInt(100)) ELSE RatOfInt(0)

RECURSIVE CountPositive(_, _)
CountPositive(rows, column) ==
    IF rows = <<>> THEN 0
    ELSE (IF Head(rows)[column] > 0 THEN 1 ELSE 0) + CountPositive(Tail(rows), column)

calculate_gross_portfolio_yield(data, active) ==
    LET frame == _get_filtered_data(data, active)
        total_balance == SumColumn(WithStatus(frame, denom_mask_statuses), "account")
        total_revenue ==
            SumColumn(WithStatus(frame, num_mask_statuses), "lineFees")
            + SumColumn(WithStatus(frame, num_mask_statuses), "interchange")
    IN [gross_portfolio_yield |-> AnnualizedYield(total_revenue, total_balance, frame),
        total_revenue |-> total_revenue,
        total_balance |-> total_balance,
        current_revenue |->
            SumColumn(WithStatus(frame, {"Current"}), "lineFees")
            + SumColumn(WithStatus(frame, {"Current"}), "interchange"),
        delinquent_revenue |->
            SumColumn(WithStatus(frame, {"Delinquent"}), "lineFees")
            + SumColumn(WithStatus(frame, {"Delinquent"}), "interchange"),
        current_balance |-> SumColumn(WithStatus(frame, {"Current"}), "account"),
        delinquent_balance |-> SumColumn(WithStatus(frame, {"Delinquent"}), "account"),
        default_balance |-> SumColumn(WithStatus(frame, {"Default"}), "account"),
        accounts_included_revenue |-> Len(WithStatus(frame, num_mask_statuses)),
        accounts_included_balance |-> Len(WithStatus(frame, denom_mask_statuses)),
        avg_period_days |-> avg_period_days(frame),
        annualization_factor |-> annualization_factor(frame)]

calculate_net_portfolio_yield(data, active) ==
    LET frame == _get_filtered_data(data, active)
        total_balance == SumColumn(WithStatus(frame, denom_mask_statuses), "account")
        total_revenue ==
            SumColumn(WithStatus(frame, num_mask_statuses), "lineFees")
            + SumColumn(WithStatus(frame, num_mask_statuses), "interchange")
        total_costs == SumColumn(WithStatus(frame, num_mask_statuses), "rewards")
        net_revenue == total_revenue - total_costs
    IN [net_portfolio_yield |-> AnnualizedYield(net_revenue, total_balance, frame),
        total_revenue |-> total_revenue,
        total_costs |-> total_costs,
        net_revenue |-> net_revenue,
        total_balance |-> total_balance,
        cost_ratio |-> CostRatio(total_costs, total_revenue),
        avg_period_days |-> avg_period_days(frame),
        annualization_factor |-> annualization_factor(frame)]

\* Mutant of cost_of_capital: nothing deducted.
no_cost_of_capital == RatOfInt(0)

cost_of_capital == Rat(10, 100)

calculate_net_portfolio_yield_after_cost_of_capital(data, active) ==
    LET npy_result == calculate_net_portfolio_yield(data, active)
    IN [net_portfolio_yield_after_coc |->
            RatSub(npy_result.net_portfolio_yield, cost_of_capital),
        base_net_portfolio_yield |-> npy_result.net_portfolio_yield,
        cost_of_capital |-> cost_of_capital,
        total_revenue |-> npy_result.total_revenue,
        total_costs |-> npy_result.total_costs,
        net_revenue |-> npy_result.net_revenue,
        total_balance |-> npy_result.total_balance,
        cost_ratio |-> npy_result.cost_ratio,
        avg_period_days |-> npy_result.avg_period_days,
        annualization_factor |-> npy_result.annualization_factor]

calculate_line_gross_portfolio_yield(data, active) ==
    LET frame == _get_filtered_data(data, active)
        total_line_balance == SumColumn(WithStatus(frame, denom_mask_statuses), "line")
        total_line_revenue == SumColumn(WithStatus(frame, num_mask_statuses), "lineFees")
    IN [line_gross_portfolio_yield |->
            AnnualizedYield(total_line_revenue, total_line_balance, frame),
        total_line_revenue |-> total_line_revenue,
        total_line_balance |-> total_line_balance,
        accounts_with_line_revenue |->
            CountPositive(WithStatus(frame, num_mask_statuses), "lineFees"),
        accounts_with_line_balance |->
            CountPositive(WithStatus(frame, denom_mask_statuses), "line"),
        avg_period_days |-> avg_period_days(frame),
        annualization_factor |-> annualization_factor(frame)]

calculate_card_gross_portfolio_yield(data, active) ==
    LET frame == _get_filtered_data(data, active)
        total_card_balance == SumColumn(WithStatus(frame, denom_mask_statuses), "card")
        total_card_revenue == SumColumn(WithStatus(frame, num_mask_statuses), "interchange")
    IN [card_gross_portfolio_yield |->
            AnnualizedYield(total_card_revenue, total_card_balance, frame),
        total_card_revenue |-> total_card_revenue,
        total_card_balance |-> total_card_balance,
        accounts_with_card_revenue |->
            CountPositive(WithStatus(frame, num_mask_statuses), "interchange"),
        accounts_with_card_balance |->
            CountPositive(WithStatus(frame, denom_mask_statuses), "card"),
        avg_period_days |-> avg_period_days(frame),
        annualization_factor |-> annualization_factor(frame)]

calculate_card_net_portfolio_yield(data, active) ==
    LET frame == _get_filtered_data(data, active)
        total_card_balance == SumColumn(WithStatus(frame, denom_mask_statuses), "card")
        total_card_revenue == SumColumn(WithStatus(frame, num_mask_statuses), "interchange")
        total_card_costs == SumColumn(WithStatus(frame, num_mask_statuses), "rewards")
        net_card_revenue == total_card_revenue - total_card_costs
    IN [card_net_portfolio_yield |->
            AnnualizedYield(net_card_revenue, total_card_balance, frame),
        total_card_revenue |-> total_card_revenue,
        total_card_costs |-> total_card_costs,
        net_card_revenue |-> net_card_revenue,
        total_card_balance |-> total_card_balance,
        card_cost_ratio |-> CostRatio(total_card_costs, total_card_revenue),
        avg_period_days |-> avg_period_days(frame),
        annualization_factor |-> annualization_factor(frame)]

\* YieldMetricsCalculator(data).calculate_all_yield_metrics(filter_active)
calculate_all_yield_metrics(data, active) ==
    LET preprocessed == yield_preprocess_data(data)
    IN [k |-> "ok",
        gross_portfolio_yield |-> calculate_gross_portfolio_yield(preprocessed, active),
        net_portfolio_yield |-> calculate_net_portfolio_yield(preprocessed, active),
        net_portfolio_yield_after_coc |->
            calculate_net_portfolio_yield_after_cost_of_capital(preprocessed, active),
        line_gross_portfolio_yield |->
            calculate_line_gross_portfolio_yield(preprocessed, active),
        card_gross_portfolio_yield |->
            calculate_card_gross_portfolio_yield(preprocessed, active),
        card_net_portfolio_yield |->
            calculate_card_net_portfolio_yield(preprocessed, active)]

InitYield ==
    /\ \E m \in 0..MaxYieldRows : ydata \in [1..m -> YieldRows]
    /\ filter_active \in BOOLEAN
    /\ yields = NotCalled
    /\ raw = PyNaN /\ outG = Pending /\ outR = Pending /\ outD = Pending
    /\ IdleOrders /\ IdleResolver /\ IdleBusiness
    /\ IdlePortfolio /\ IdleApr /\ IdleAnalyzer
    /\ IdleInstances

CalculateAllYieldMetrics ==
    /\ yields = NotCalled
    /\ yields' = calculate_all_yield_metrics(ydata, filter_active)
    /\ UNCHANGED <<raw, outG, outR, outD, csv, df, statuses, resolved, tape,
                   bizRows, portfolioVars, ydata, filter_active, aprVars,
                   analyzerVars, instanceVars>>

NextYield == CalculateAllYieldMetrics

SpecYield == InitYield /\ [][NextYield]_vars

\* The rows of the tape with one of the listed statuses, and the sum of a
\* column over a set of rows, each taken once.
RowsWith(listed) ==
    {n \in 1..Len(ydata) : ydata[n].accountEndingStatus \in listed}
RECURSIVE SumRowsOnce(_, _)
SumRowsOnce(indices, column) ==
    IF indices = {} THEN 0
    ELSE LET n == CHOOSE i \in indices : TRUE
         IN ydata[n][column] + SumRowsOnce(indices \ {n}, column)
BalanceRows == RowsWith({"Current", "Delinquent", "Default"})
RevenueRows == RowsWith({"Current", "Delinquent"})

\* The period length of a row and the annualization factor as the
\* specification words them: 365 over the mean length of the revenue rows
\* that have both dates, 30 days where there is none.
RECURSIVE SumLengths(_)
SumLengths(indices) ==
    IF indices = {} THEN 0
    ELSE LET n == CHOOSE i \in indices : TRUE
             days == ydata[n].snapshotEndingAt - ydata[n].snapshotBeginningAt
         IN (IF days >= 1 THEN days ELSE 1) + SumLengths(indices \ {n})
Dated(indices) ==
    {n \in indices : ydata[n].snapshotBeginningAt # NaT /\ ydata[n].snapshotEndingAt # NaT}
ExpectedAverage ==
    IF Dated(RevenueRows) = {} THEN RatOfInt(30)
    ELSE Rat(SumLengths(Dated(RevenueRows)), Cardinality(Dated(RevenueRows)))
ExpectedFactor == RatDiv(RatOfInt(365), ExpectedAverage)

\* The sums the six calculations report are those of the two masks.
ReportedSumsAreMasked ==
    LET balance == SumRowsOnce(BalanceRows, "account")
        lineBalance == SumRowsOnce(BalanceRows, "line")
        cardBalance == SumRowsOnce(BalanceRows, "card")
        fees == SumRowsOnce(RevenueRows, "lineFees")
        interchange == SumRowsOnce(RevenueRows, "interchange")
        rewards == SumRowsOnce(RevenueRows, "rewards")
    IN /\ yields.gross_portfolio_yield.total_balance = balance
       /\ yields.gross_portfolio_yield.total_revenue = fees + interchange
       /\ yields.gross_portfolio_yield.accounts_included_balance = Cardinality(BalanceRows)
       /\ yields.gross_portfolio_yield.accounts_included_revenue = Cardinality(RevenueRows)
       /\ yields.net_portfolio_yield.total_balance = balance
       /\ yields.net_portfolio_yield.total_revenue = fees + interchange
       /\ yields.net_portfolio_yield.total_costs = rewards
       /\ yields.net_portfolio_yield.net_revenue = fees + interchange - rewards
       /\ yields.net_portfolio_yield_after_coc.total_balance = balance
       /\ yields.net_portfolio_yield_after_coc.net_revenue = fees + interchange - rewards
       /\ yields.line_gross_portfolio_yield.total_line_balance = lineBalance
       /\ yields.line_gross_portfolio_yield.total_line_revenue = fees
       /\ yields.card_gross_portfolio_yield.total_card_balance = cardBalance
       /\ yields.card_gross_portfolio_yield.total_card_revenue = interchange
       /\ yields.card_net_portfolio_yield.total_card_balance = cardBalance
       /\ yields.card_net_portfolio_yield.total_card_revenue = interchange
       /\ yields.card_net_portfolio_yield.total_card_costs = rewards
       /\ yields.card_net_portfolio_yield.net_card_revenue = interchange - rewards

\* numerator / denominator * annualization factor
Annualized(numerator, denominator) ==
    RatMul(Rat(numerator, denominator), ExpectedFactor)

\* The six yields are the annualized quotients of their sums wherever the
\* denominator satisfies a condition given as a set of balances.
YieldsAreQuotientsOver(balances) ==
    LET g == yields.gross_portfolio_yield
        np == yields.net_portfolio_yield
        ac == yields.net_portfolio_yield_after_coc
        lg == yields.line_gross_portfolio_yield
        cg == yields.card_gross_portfolio_yield
        cn == yields.card_net_portfolio_yield
    IN /\ g.total_balance \in balances =>
            g.gross_portfolio_yield = Annualized(g.total_revenue, g.total_balance)
       /\ np.total_balance \in balances =>
            np.net_portfolio_yield = Annualized(np.net_revenue, np.total_balance)
       /\ ac.total_balance \in balances =>
            ac.net_portfolio_yield_after_coc
            = RatSub(Annualized(ac.net_revenue, ac.total_balance), Rat(1, 10))
       /\ lg.total_line_balance \in balances =>
            lg.line_gross_portfolio_yield
            = Annualized(lg.total_line_revenue, lg.total_line_balance)
       /\ cg.total_card_balance \in balances =>
            cg.card_gross_portfolio_yield
            = Annualized(cg.total_card_revenue, cg.total_card_balance)
       /\ cn.total_card_balance \in balances =>
            cn.card_net_portfolio_yield
            = Annualized(cn.net_card_revenue, cn.total_card_balance)

\* C13: in each of the six yield calculations the denominator sums the
\* balance column over exactly the Current, Delinquent and Default rows, the
\* numerator sums the revenue (and card rewards, for the net variants) over
\* exactly the Current and Delinquent rows, and the yield is numerator /
\* denominator * annualization factor (less the cost of capital for the
\* yield after cost of capital), for every denominator other than 0.
C13_MaskedYields ==
    yields.k = "ok" =>
        /\ ReportedSumsAreMasked
        /\ YieldsAreQuotientsOver(Int \ {0})

\* C13 divergence: balances that sum to less than 0, with revenue, give a
\* gross portfolio yield of 0.
C13_NegativeBalanceYieldsZero ==
    /\ yields.k = "ok"
    /\ yields.gross_portfolio_yield.total_balance < 0
    /\ yields.gross_portfolio_yield.total_revenue > 0
    /\ yields.gross_portfolio_yield.gross_portfolio_yield = RatOfInt(0)

\* The masks of C13 hold throughout, and its quotient wherever the
\* denominator is above 0.
C13_HoldsAboveZero ==
    yields.k = "ok" =>
        /\ ReportedSumsAreMasked
        /\ YieldsAreQuotientsOver(Nat \ {0})

\* C14: in every yield calculation each row's period length is the days
\* from period start to period end floored to 1, and the annualization
\* factor is 365 over the average period length of exactly the Current and
\* Delinquent rows; the lengths of Default rows do not affect it, the length
\* defaults to 30 days where that subset has none, and the factor is always
\* defined and positive.
C14_Annualization ==
    yields.k = "ok" =>
        \A result \in {yields.gross_portfolio_yield, yields.net_portfolio_yield,
                       yields.net_portfolio_yield_after_coc,
                       yields.line_gross_portfolio_yield,
                       yields.card_gross_portfolio_yield,
                       yields.card_net_portfolio_yield} :
            /\ result.avg_period_days = ExpectedAverage
            /\ result.annualization_factor = ExpectedFactor
            /\ result.annualization_factor.d > 0
            /\ RatPositive(result.annualization_factor)

\* C14 witness: a Current row of 30 days beside a Default row whose two
\* dates coincide (length 1): the factor is 365/30, the Default row's
\* length left out.
C14_Witness ==
    /\ yields.k = "ok" /\ Len(ydata) = 2
    /\ ydata[1].accountEndingStatus = "Current"
    /\ ydata[1].snapshotBeginningAt = 1 /\ ydata[1].snapshotEndingAt = 31
    /\ ydata[2].accountEndingStatus = "Default"
    /\ ydata[2].snapshotBeginningAt = 1 /\ ydata[2].snapshotEndingAt = 1
    /\ yields.gross_portfolio_yield.annualization_factor = Rat(365, 30)
    /\ yields.card_net_portfolio_yield.annualization_factor = Rat(365, 30)

\* C14 witness of the floor and of the default: a Delinquent row whose two
\* dates coincide gives the factor 365, and a tape of one Default row the
\* factor 365/30.
C14_FloorAndDefault ==
    /\ yields.k = "ok" /\ Len(ydata) = 1
    /\ \/ /\ ydata[1].accountEndingStatus = "Delinquent"
          /\ ydata[1].snapshotBeginningAt = ydata[1].snapshotEndingAt
          /\ yields.net_portfolio_yield.annualization_factor = RatOfInt(365)
       \/ /\ ydata[1].accountEndingStatus = "Default"
          /\ yields.net_portfolio_yield.avg_period_days = RatOfInt(30)

\* C15 as stated: each of the six calculations returns 0 as its yield
\* whenever its denominator balance is 0.
C15_AllSixZero ==
    yields.k = "ok" =>
        /\ yields.gross_portfolio_yield.total_balance = 0 =>
              yields.gross_portfolio_yield.gross_portfolio_yield = RatOfInt(0)
        /\ yields.net_portfolio_yield.total_balance = 0 =>
              yields.net_portfolio_yield.net_portfolio_yield = RatOfInt(0)
        /\ yields.net_portfolio_yield_after_coc.total_balance = 0 =>
              yields.net_portfolio_yield_after_coc.net_portfolio_yield_after_coc
              = RatOfInt(0)
        /\ yields.line_gross_portfolio_yield.total_line_balance = 0 =>
              yields.line_gross_portfolio_yield.line_gross_portfolio_yield = RatOfInt(0)
        /\ yields.card_gross_portfolio_yield.total_card_balance = 0 =>
              yields.card_gross_portfolio_yield.card_gross_portfolio_yield = RatOfInt(0)
        /\ yields.card_net_portfolio_yield.total_card_balance = 0 =>
              yields.card_net_portfolio_yield.card_net_portfolio_yield = RatOfInt(0)

\* C15, amended: with a denominator balance of 0 the gross, net, line gross,
\* card gross and card net calculations return 0 as the yield; the
\* calculation after cost of capital returns 0 as base_net_portfolio_yield
\* and 0 - 0.10 as net_portfolio_yield_after_coc; all of them still report
\* their sums, counts and a positive annualization factor.
C15_ZeroBalance ==
    yields.k = "ok" =>
        /\ yields.gross_portfolio_yield.total_balance = 0 =>
              yields.gross_portfolio_yield.gross_portfolio_yield = RatOfInt(0)
        /\ yields.net_portfolio_yield.total_balance = 0 =>
              yields.net_portfolio_yield.net_portfolio_yield = RatOfInt(0)
        /\ yields.net_portfolio_yield_after_coc.total_balance = 0 =>
              /\ yields.net_portfolio_yield_after_coc.base_net_portfolio_yield
                 = RatOfInt(0)
              /\ yields.net_portfolio_yield_after_coc.net_portfolio_yield_after_coc
                 = Rat(-1, 10)
        /\ yields.line_gross_portfolio_yield.total_line_balance = 0 =>
              yields.line_gross_portfolio_yield.line_gross_portfolio_yield = RatOfInt(0)
        /\ yields.card_gross_portfolio_yield.total_card_balance = 0 =>
              yields.card_gross_portfolio_yield.card_gross_portfolio_yield = RatOfInt(0)
        /\ yields.card_net_portfolio_yield.total_card_balance = 0 =>
              yields.card_net_portfolio_yield.card_net_portfolio_yield = RatOfInt(0)
        /\ ReportedSumsAreMasked
        /\ \A result \in {yields.gross_portfolio_yield, yields.net_portfolio_yield,
                          yields.net_portfolio_yield_after_coc,
                          yields.line_gross_portfolio_yield,
                          yields.card_gross_portfolio_yield,
                          yields.card_net_portfolio_yield} :
              RatPositive(result.annualization_factor)

\* C15 witness: one Current row with balances of 0 and revenue: every
\* denominator is 0, the revenue of 4 and the costs of 2 are reported, five
\* yields are 0 and the yield after cost of capital is -1/10.
C15_Witness ==
    /\ yields.k = "ok" /\ Len(ydata) = 1
    /\ ydata[1].accountEndingStatus = "Current"
    /\ ydata[1].account = 0 /\ ydata[1].line = 0 /\ ydata[1].card = 0
    /\ yields.gross_portfolio_yield.total_revenue = 4
    /\ yields.net_portfolio_yield.total_costs = 2
    /\ yields.gross_portfolio_yield.gross_portfolio_yield = RatOfInt(0)
    /\ yields.card_net_portfolio_yield.card_net_portfolio_yield = RatOfInt(0)
    /\ yields.net_portfolio_yield_after_coc.net_portfolio_yield_after_coc = Rat(-1, 10)

(***************************************************************************)
(* OrdersAnalyzer of orders_data_analyzer.py.  An order row is [customer,  *)
(* created_at, net_revenue]: customer is NoCustomer where the cell is      *)
(* empty, created_at a day number (NaT where the timestamp is missing or   *)
(* was not parsed), every row has an order_id.  A bank transaction is      *)
(* [category, amount]; a category is null or a text, and a text is the     *)
(* sequence of its pieces.  The analyzer keeps what its methods computed   *)
(* in analysis: cohort_analysis, global_ltv, global_cac, insights.         *)
(***************************************************************************)
MaxOrderRows == 3
MaxBankRows == 2

NoCustomer == 0
Customers == {1, 2}
Timestamps == {10, 40}
NetRevenues == {-1, 2}
OrderRows ==
    [customer : Customers \cup {NoCustomer}, created_at : Timestamps \cup {NaT},
     net_revenue : NetRevenues]

NullCategory == [isna |-> TRUE, text |-> <<>>]
Category(text) == [isna |-> FALSE, text |-> text]
Categories ==
    {NullCategory, Category(<<"Marketing">>), Category(<<"Digital ", "Marketing">>),
     Category(<<"marketing">>), Category(<<"Rent">>)}
BankAmounts == {-3, 2}
BankRows == [category : Categories, amount : BankAmounts]

\* dt.to_period('M'): the calendar month of a day, months of 31 days.
CalendarMonth(day) == (day \div 31) + 1

NewAnalyzer ==
    [cohort_analysis |-> NotCalled, global_ltv |-> NotCalled,
     global_cac |-> NotCalled, insights |-> NotCalled]

\* The rows of one customer, in the order of the frame.
RECURSIVE RowsOfCustomer(_, _)
RowsOfCustomer(data, customer) ==
    IF data = <<>> THEN <<>>
    ELSE IF Head(data).customer = customer
         THEN <<Head(data)>> \o RowsOfCustomer(Tail(data), customer)
         ELSE RowsOfCustomer(Tail(data), customer)

\* The keys of groupby('customer'): the customers present, NaN left out;
\* also what nunique() counts.
CustomersPresent(data) ==
    {data[n].customer : n \in 1..Len(data)} \ {NoCustomer}

\* 'min' and 'max' of created_at within a group skip NaT and are NaT where
\* nothing is left.
RECURSIVE MinCreatedAt(_)
MinCreatedAt(rows) ==
    IF rows = <<>> THEN NaT
    ELSE LET rest == MinCreatedAt(Tail(rows))
             here == Head(rows).created_at
         IN IF here = NaT THEN rest
            ELSE IF rest = NaT \/ here < rest THEN here ELSE rest
RECURSIVE MaxCreatedAt(_)
MaxCreatedAt(rows) ==
    IF rows = <<>> THEN NaT
    ELSE LET rest == MaxCreatedAt(Tail(rows))
             here == Head(rows).created_at
         IN IF here = NaT THEN rest
            ELSE IF rest = NaT \/ here > rest THEN here ELSE rest

\* Mutant of CohortMonthOf: the cohort taken from the latest order.
CohortMonthOfLastOrder(rows) ==
    IF MaxCreatedAt(rows) = NaT THEN NaT ELSE CalendarMonth(MaxCreatedAt(rows))

\* customer_cohorts['first_order_date'].dt.to_period('M')
CohortMonthOf(rows) ==
    IF MinCreatedAt(rows) = NaT THEN NaT ELSE CalendarMonth(MinCreatedAt(rows))

\* orders_data.groupby('customer').agg(...): one row per customer,
\* customers ascending.
RECURSIVE CustomerCohorts(_, _)
CustomerCohorts(data, customers) ==
    IF customers = {} THEN <<>>
    ELSE LET c == CHOOSE x \in customers : \A o \in customers : x <= o
             rows == RowsOfCustomer(data, c)
         IN <<[customer |-> c,
               first_order_date |-> MinCreatedAt(rows),
               last_order_date |-> MaxCreatedAt(rows),
               order_count |-> Len(rows),
               total_spent |-> SumColumn(rows, "net_revenue"),
               cohort_month |-> CohortMonthOf(rows)]>>
            \o CustomerCohorts(data, customers \ {c})

RECURSIVE InCohort(_, _)
InCohort(customer_cohorts, month) ==
    IF customer_cohorts = <<>> THEN <<>>
    ELSE IF Head(customer_cohorts).cohort_month = month
         THEN <<Head(customer_cohorts)>> \o InCohort(Tail(customer_cohorts), month)
         ELSE InCohort(Tail(customer_cohorts), month)

\* customer_cohorts.groupby('cohort_month').agg(...): one row per cohort
\* month, months ascending, NaT left out.
RECURSIVE CohortRows(_, _)
CohortRows(customer_cohorts, months) ==
    IF months = {} THEN <<>>
    ELSE LET month == CHOOSE m \in months : \A o \in months : m <= o
             members == InCohort(customer_cohorts, month)
             customer_count == Len(members)
             total_orders == SumColumn(members, "order_count")
             total_revenue == SumColumn(members, "total_spent")
         IN <<[cohort_month |-> month,
               customer_count |-> customer_count,
               total_orders |-> total_orders,
               total_revenue |-> total_revenue,
               average_orders_per_customer |-> Rat(total_orders, customer_count),
               average_revenue_per_customer |-> Rat(total_revenue, customer_count),
               total_ltv |-> total_revenue,
               avg_ltv |-> Rat(total_revenue, customer_count),
               order_count |-> total_orders,
               avg_aov |-> Rat(total_revenue, total_orders)]>>
            \o CohortRows(customer_cohorts, months \ {month})

_calculate_cohort_metrics(data) ==
    LET customer_cohorts == CustomerCohorts(data, CustomersPresent(data))
        months == {customer_cohorts[n].cohort_month :
                      n \in 1..Len(customer_cohorts)} \ {NaT}
    IN [k |-> "ok", rows |-> CohortRows(customer_cohorts, months)]

\* A sequence of integers in ascending order.
RECURSIVE InsertSorted(_, _)
InsertSorted(sorted, x) ==
    IF sorted = <<>> THEN <<x>>
    ELSE IF x <= Head(sorted) THEN <<x>> \o sorted
    ELSE <<Head(sorted)>> \o InsertSorted(Tail(sorted), x)
RECURSIVE SortedColumn(_, _)
SortedColumn(rows, column) ==
    IF rows = <<>> THEN <<>>
    ELSE InsertSorted(SortedColumn(Tail(rows), column), Head(rows)[column])

\* Series.median(): a set holding the median, empty (NaN) for no values.
Median(rows, column) ==
    LET sorted == SortedColumn(rows, column)
        n == Len(sorted)
    IN IF n = 0 THEN {}
       ELSE IF n % 2 = 1 THEN {RatOfInt(sorted[(n + 1) \div 2])}
       ELSE {Rat(sorted[n \div 2] + sorted[(n \div 2) + 1], 2)}

_calculate_global_ltv(data) ==
    LET total_revenue == SumColumn(data, "net_revenue")
        total_customers == Cardinality(CustomersPresent(data))
    IN [k |-> "ok",
        average_ltv |-> IF total_customers > 0
                        THEN Rat(total_revenue, total_customers) ELSE RatOfInt(0),
        median_ltv |-> Median(CustomerCohorts(data, CustomersPresent(data)),
                              "total_spent"),
        total_customers |-> total_customers,
        total_revenue |-> total_revenue]

\* Whether a text holds a pattern as a run of consecutive pieces.
Contains(text, pattern) ==
    \E at \in 1..(Len(text) - Len(pattern) + 1) :
        \A i \in 1..Len(pattern) : text[at + i - 1] = pattern[i]

\* bank_transactions[category.str.contains('Marketing', na=False)]
RECURSIVE MarketingRows(_)
MarketingRows(transactions) ==
    IF transactions = <<>> THEN <<>>
    ELSE IF /\ ~Head(transactions).category.isna
            /\ Contains(Head(transactions).category.text, <<"Marketing">>)
         THEN <<Head(transactions)>> \o MarketingRows(Tail(transactions))
         ELSE MarketingRows(Tail(transactions))

\* Series.str of a category column read by pd.read_csv: a column whose cells
\* are all empty is read as float64, and .str then raises AttributeError
\* ("Can only use .str accessor with string values"); a column of no rows
\* or with some text is an object column.
StrAccessorRaises(transactions) ==
    /\ Len(transactions) > 0
    /\ \A n \in 1..Len(transactions) : transactions[n].category.isna
AttributeError == [k |-> "raise", e |-> "AttributeError"]

\* Mutant of _calculate_global_cac: the ratio taken the other way round.
cac_ltv_ratio(data, transactions, ltv) ==
    LET marketing_spend == SumColumn(MarketingRows(transactions), "amount")
        total_customers == Cardinality(CustomersPresent(data))
        estimated_cac == IF total_customers > 0
                         THEN Rat(Abs(marketing_spend), total_customers)
                         ELSE RatOfInt(0)
    IN IF StrAccessorRaises(transactions) THEN AttributeError
       ELSE [k |-> "ok",
             estimated_cac |-> estimated_cac,
             total_marketing_spend |-> Abs(marketing_spend),
             total_customers |-> total_customers,
             ltv_cac_ratio |->
                 IF RatPositive(estimated_cac) /\ RatPositive(ltv.average_ltv)
                 THEN RatDiv(estimated_cac, ltv.average_ltv)
                 ELSE RatOfInt(0)]

\* _calculate_global_cac, given the global LTV metrics it asks for.
_calculate_global_cac(data, transactions, ltv) ==
    LET marketing_spend == SumColumn(MarketingRows(transactions), "amount")
        total_customers == Cardinality(CustomersPresent(data))
        estimated_cac == IF total_customers > 0
                         THEN Rat(Abs(marketing_spend), total_customers)
                         ELSE RatOfInt(0)
    IN IF StrAccessorRaises(transactions) THEN AttributeError
       ELSE [k |-> "ok",
             estimated_cac |-> estimated_cac,
             total_marketing_spend |-> Abs(marketing_spend),
             total_customers |-> total_customers,
             ltv_cac_ratio |-> IF RatPositive(estimated_cac)
                               THEN RatDiv(ltv.average_ltv, estimated_cac)
                               ELSE RatOfInt(0)]

\* Series.mean() of the customers' lifetimes in days, NaN skipped: a set
\* holding the mean, empty where no customer has a dated order.
RECURSIVE Lifetimes(_)
Lifetimes(customer_behavior) ==
    IF customer_behavior = <<>> THEN [sum |-> 0, count |-> 0]
    ELSE LET rest == Lifetimes(Tail(customer_behavior))
             row == Head(customer_behavior)
         IN IF row.first_order_date = NaT THEN rest
            ELSE [sum |-> rest.sum + (row.last_order_date - row.first_order_date),
                  count |-> rest.count + 1]

RECURSIVE RepeatCustomers(_)
RepeatCustomers(customer_behavior) ==
    IF customer_behavior = <<>> THEN 0
    ELSE (IF Head(customer_behavior).order_count > 1 THEN 1 ELSE 0)
         + RepeatCustomers(Tail(customer_behavior))

RECURSIVE DatedOrders(_)
DatedOrders(data) ==
    IF data = <<>> THEN <<>>
    ELSE IF Head(data).created_at # NaT THEN <<Head(data)>> \o DatedOrders(Tail(data))
    ELSE DatedOrders(Tail(data))

\* _generate_insights: the customer-behaviour block and the revenue totals.
\* len(...) / len(customer_behavior) divides two Python integers.
_generate_insights(data) ==
    LET customer_behavior == CustomerCohorts(data, CustomersPresent(data))
        lifetimes == Lifetimes(customer_behavior)
    IN IF Len(customer_behavior) = 0
       THEN [k |-> "raise", e |-> "ZeroDivisionError"]
       ELSE [k |-> "ok",
             total_customers |-> Len(customer_behavior),
             average_orders_per_customer |->
                 Rat(SumColumn(customer_behavior, "order_count"),
                     Len(customer_behavior)),
             average_customer_lifetime_days |->
                 IF lifetimes.count = 0 THEN {}
                 ELSE {Rat(lifetimes.sum, lifetimes.count)},
             repeat_customers |-> RepeatCustomers(customer_behavior),
             repeat_customer_rate |->
                 Rat(RepeatCustomers(customer_behavior), Len(customer_behavior)),
             total_revenue |-> SumColumn(DatedOrders(data), "net_revenue"),
             net_revenue |-> SumColumn(data, "net_revenue")]

\* The analyzer's methods, each called on the loaded frames.
CalculateCohortMetrics ==
    /\ analysis # NotCalled
    /\ analysis.cohort_analysis = NotCalled
    /\ analysis' = [analysis EXCEPT
                       !.cohort_analysis = _calculate_cohort_metrics(orders)]
    /\ UNCHANGED <<raw, outG, outR, outD, csv, df, statuses, resolved, tape,
                   bizRows, portfolioVars, yieldVars, aprVars, orders, bank,
                   instanceVars>>

CalculateGlobalLtv ==
    /\ analysis # NotCalled
    /\ analysis.global_ltv = NotCalled
    /\ analysis' = [analysis EXCEPT !.global_ltv = _calculate_global_ltv(orders)]
    /\ UNCHANGED <<raw, outG, outR, outD, csv, df, statuses, resolved, tape,
                   bizRows, portfolioVars, yieldVars, aprVars, orders, bank,
                   instanceVars>>

CalculateGlobalCac ==
    /\ analysis # NotCalled
    /\ analysis.global_cac = NotCalled
    /\ LET ltv == IF analysis.global_ltv = NotCalled
                  THEN _calculate_global_ltv(orders)
                  ELSE analysis.global_ltv
           cac == _calculate_global_cac(orders, bank, ltv)
       IN analysis' = [analysis EXCEPT
                          !.global_ltv = IF cac.k = "raise" THEN @ ELSE ltv,
                          !.global_cac = cac]
    /\ UNCHANGED <<raw, outG, outR, outD, csv, df, statuses, resolved, tape,
                   bizRows, portfolioVars, yieldVars, aprVars, orders, bank,
                   instanceVars>>

GenerateInsights ==
    /\ analysis # NotCalled
    /\ analysis.insights = NotCalled
    /\ analysis' = [analysis EXCEPT !.insights = _generate_insights(orders)]
    /\ UNCHANGED <<raw, outG, outR, outD, csv, df, statuses, resolved, tape,
                   bizRows, portfolioVars, yieldVars, aprVars, orders, bank,
                   instanceVars>>

\* The cohort side of the analyzer, over every small orders frame.
InitCohorts ==
    /\ \E m \in 0..MaxOrderRows : orders \in [1..m -> OrderRows]
    /\ bank = <<>>
    /\ analysis = NewAnalyzer
    /\ raw = PyNaN /\ outG = Pending /\ outR = Pending /\ outD = Pending
    /\ IdleOrders /\ IdleResolver /\ IdleBusiness
    /\ IdlePortfolio /\ IdleYield /\ IdleApr
    /\ IdleInstances

NextCohorts == CalculateCohortMetrics \/ CalculateGlobalLtv \/ GenerateInsights

SpecCohorts == InitCohorts /\ [][NextCohorts]_vars

\* The acquisition-cost side, over every small bank frame and orders
\* frames of no, one and two customers.
CacOrders ==
    {<<>>,
     <<[customer |-> 1, created_at |-> 10, net_revenue |-> 2]>>,
     <<[customer |-> 1, created_at |-> 10, net_revenue |-> 2],
       [customer |-> 2, created_at |-> 40, net_revenue |-> 2]>>}

InitCac ==
    /\ orders \in CacOrders
    /\ \E m \in 0..MaxBankRows : bank \in [1..m -> BankRows]
    /\ analysis = NewAnalyzer
    /\ raw = PyNaN /\ outG = Pending /\ outR = Pending /\ outD = Pending
    /\ IdleOrders /\ IdleResolver /\ IdleBusiness
    /\ IdlePortfolio /\ IdleYield /\ IdleApr
    /\ IdleInstances

NextCac == CalculateGlobalLtv \/ CalculateGlobalCac

SpecCac == InitCac /\ [][NextCac]_vars

\* The orders of a customer, the customer's earliest dated order and the
\* cohort it falls in, read off the orders frame.
OrdersBy(customer) == {n \in 1..Len(orders) : orders[n].customer = customer}
KnownCustomers == {orders[n].customer : n \in 1..Len(orders)} \ {NoCustomer}
FirstOrder(customer) ==
    LET stamps == {orders[n].created_at : n \in OrdersBy(customer)} \ {NaT}
    IN IF stamps = {} THEN NaT
       ELSE CHOOSE t \in stamps : \A u \in stamps : t <= u
CohortMembers(month) ==
    {c \in KnownCustomers :
        FirstOrder(c) # NaT /\ CalendarMonth(FirstOrder(c)) = month}
RECURSIVE SumNetRevenue(_)
SumNetRevenue(indices) ==
    IF indices = {} THEN 0
    ELSE LET n == CHOOSE i \in indices : TRUE
         IN orders[n].net_revenue + SumNetRevenue(indices \ {n})
CohortRowsOf(month) ==
    {i \in 1..Len(analysis.cohort_analysis.rows) :
        analysis.cohort_analysis.rows[i].cohort_month = month}
CohortsComputed ==
    analysis # NotCalled /\ analysis.cohort_analysis # NotCalled

\* C16: each customer belongs to the one cohort of the calendar month of
\* the customer's earliest order: a month has a cohort row exactly when
\* some customer's earliest order falls in it, there is one row per month,
\* and the row counts those customers once and carries all their orders and
\* all their net revenue, whatever months the later orders fall in.
C16_OneCohortPerCustomer ==
    CohortsComputed =>
        /\ \A i \in 1..Len(analysis.cohort_analysis.rows) :
              CohortMembers(analysis.cohort_analysis.rows[i].cohort_month) # {}
        /\ \A month \in {CalendarMonth(t) : t \in Timestamps} :
              CohortMembers(month) # {} =>
                  /\ Cardinality(CohortRowsOf(month)) = 1
                  /\ \A i \in CohortRowsOf(month) :
                        LET row == analysis.cohort_analysis.rows[i]
                            theirs == UNION {OrdersBy(c) : c \in CohortMembers(month)}
                        IN /\ row.customer_count = Cardinality(CohortMembers(month))
                           /\ row.total_orders = Cardinality(theirs)
                           /\ row.total_revenue = SumNetRevenue(theirs)

\* C16 witness: a customer ordered in the second month and, earlier, in the
\* first; the only cohort is the first month's, with both orders and the
\* revenue of both.
C16_Witness ==
    /\ CohortsComputed /\ Len(orders) = 2
    /\ orders[1].customer = 1 /\ orders[1].created_at = 40 /\ orders[1].net_revenue = 2
    /\ orders[2].customer = 1 /\ orders[2].created_at = 10 /\ orders[2].net_revenue = -1
    /\ Len(analysis.cohort_analysis.rows) = 1
    /\ analysis.cohort_analysis.rows[1].cohort_month = 1
    /\ analysis.cohort_analysis.rows[1].customer_count = 1
    /\ analysis.cohort_analysis.rows[1].total_orders = 2
    /\ analysis.cohort_analysis.rows[1].total_revenue = 1

RECURSIVE SumCohorts(_, _)
SumCohorts(rows, column) ==
    IF rows = <<>> THEN 0 ELSE Head(rows)[column] + SumCohorts(Tail(rows), column)
CohortsAndTotalsComputed ==
    CohortsComputed /\ analysis.global_ltv # NotCalled

\* C17: for every orders frame the cohorts' total_revenue sums to the total
\* net revenue of the frame, and the cohorts' customer_count sums to the
\* number of distinct customers reported globally.
C17_CohortsAddUp ==
    CohortsAndTotalsComputed =>
        /\ SumCohorts(analysis.cohort_analysis.rows, "total_revenue")
           = analysis.global_ltv.total_revenue
        /\ SumCohorts(analysis.cohort_analysis.rows, "customer_count")
           = analysis.global_ltv.total_customers

\* C17 divergence: an order without a customer is part of the total net
\* revenue and of no cohort.
C17_OrderWithoutCustomerLeftOut ==
    /\ CohortsAndTotalsComputed /\ Len(orders) = 2
    /\ orders[1].customer = 1 /\ orders[1].created_at = 10 /\ orders[1].net_revenue = 2
    /\ orders[2].customer = NoCustomer /\ orders[2].net_revenue = 2
    /\ SumCohorts(analysis.cohort_analysis.rows, "total_revenue") = 2
    /\ analysis.global_ltv.total_revenue = 4

\* C17 divergence: a customer whose orders carry no timestamp is counted
\* globally and in no cohort.
C17_UndatedCustomerLeftOut ==
    /\ CohortsAndTotalsComputed /\ Len(orders) = 1
    /\ orders[1].customer = 1 /\ orders[1].created_at = NaT
    /\ analysis.cohort_analysis.rows = <<>>
    /\ analysis.global_ltv.total_customers = 1

\* The sums of C17 agree for a frame in which every order has a customer
\* and every customer a dated order.
C17_HoldsForCompleteOrders ==
    (/\ CohortsAndTotalsComputed
     /\ \A n \in 1..Len(orders) : orders[n].customer # NoCustomer
     /\ \A c \in KnownCustomers : FirstOrder(c) # NaT)
    => /\ SumCohorts(analysis.cohort_analysis.rows, "total_revenue")
          = analysis.global_ltv.total_revenue
       /\ SumCohorts(analysis.cohort_analysis.rows, "customer_count")
          = analysis.global_ltv.total_customers

\* The bank transactions whose category holds "Marketing".
MarketingTransactions ==
    {n \in 1..Len(bank) :
        /\ ~bank[n].category.isna
        /\ \E i \in 1..Len(bank[n].category.text) :
              bank[n].category.text[i] = "Marketing"}
RECURSIVE SumAbsoluteAmounts(_)
SumAbsoluteAmounts(indices) ==
    IF indices = {} THEN 0
    ELSE LET n == CHOOSE i \in indices : TRUE
         IN (IF bank[n].amount < 0 THEN -bank[n].amount ELSE bank[n].amount)
            + SumAbsoluteAmounts(indices \ {n})
CacComputed ==
    /\ analysis # NotCalled /\ analysis.global_cac # NotCalled
    /\ analysis.global_cac.k = "ok"

\* C18: total marketing spend is the sum of the absolute values of the
\* amounts of the transactions whose category contains "Marketing"
\* (case-sensitive, null categories excluded), for any mix of signs, and the
\* global CAC is that spend divided by the number of distinct customers.
C18_MarketingSpend ==
    CacComputed =>
        /\ analysis.global_cac.total_marketing_spend
           = SumAbsoluteAmounts(MarketingTransactions)
        /\ Cardinality(KnownCustomers) > 0 =>
              analysis.global_cac.estimated_cac
              = Rat(SumAbsoluteAmounts(MarketingTransactions),
                    Cardinality(KnownCustomers))

\* C18 divergence: two marketing transactions of -3 and 2 are reported as a
\* spend of 1.
C18_MixedSignsNetted ==
    /\ CacComputed /\ Len(bank) = 2
    /\ bank[1].category = Category(<<"Marketing">>) /\ bank[1].amount = -3
    /\ bank[2].category = Category(<<"Digital ", "Marketing">>) /\ bank[2].amount = 2
    /\ analysis.global_cac.total_marketing_spend = 1

\* The spend is as C18 says where the marketing amounts share one sign.
C18_HoldsForOneSign ==
    (/\ CacComputed
     /\ \/ \A n \in MarketingTransactions : bank[n].amount <= 0
        \/ \A n \in MarketingTransactions : bank[n].amount >= 0)
    => /\ analysis.global_cac.total_marketing_spend
          = SumAbsoluteAmounts(MarketingTransactions)
       /\ Cardinality(KnownCustomers) > 0 =>
             analysis.global_cac.estimated_cac
             = Rat(SumAbsoluteAmounts(MarketingTransactions),
                   Cardinality(KnownCustomers))

\* C19: no ratio of the analyzer raises on an empty denominator: with no
\* customers the global LTV is 0 and _generate_insights returns, with a
\* repeat-customer rate of 0.
C19_RatiosNeverRaise ==
    analysis # NotCalled =>
        /\ (analysis.global_ltv # NotCalled /\ KnownCustomers = {}) =>
              analysis.global_ltv.average_ltv = RatOfInt(0)
        /\ analysis.insights # NotCalled =>
              /\ analysis.insights.k = "ok"
              /\ KnownCustomers = {} =>
                    analysis.insights.repeat_customer_rate = RatOfInt(0)

\* C19 divergence: _generate_insights raises ZeroDivisionError on a frame
\* whose only order has no customer.
C19_InsightsRaise ==
    /\ analysis # NotCalled /\ Len(orders) = 1
    /\ orders[1].customer = NoCustomer
    /\ analysis.insights = [k |-> "raise", e |-> "ZeroDivisionError"]

(***************************************************************************)
(* The numeric columns of BusinessMetricsCalculator.calculate_business_    *)
(* metrics of loan_tape_metrics.py.  An account record is [businessGuid,   *)
(* vintage, lineFees, interchange, balance].  A float is [k |-> "num", v   *)
(* |-> a rational], [k |-> "inf", sign |-> 1 or -1] or [k |-> "nan"], the   *)
(* three outcomes of numpy's float division.  The rows of the result are   *)
(* kept as a set: the final sort permutes them and changes no value.       *)
(***************************************************************************)
MaxAccounts == 3
AccountFees == {-1, 0, 1}
AccountBalances == {0, 2}
\* The cells of the accountEndingLimit column: a parsed amount, or nothing
\* on a tape that has no such column.
NoLimitColumn == {{}}
LimitCells == {{5}}
AccountsWith(cells) ==
    [businessGuid : Businesses, vintage : VintageMonths \cup {NaT},
     lineFees : AccountFees, interchange : Interchanges,
     balance : AccountBalances, accountEndingLimit : cells]
Accounts == AccountsWith(NoLimitColumn) \cup AccountsWith(LimitCells)

Finite(v) == [k |-> "num", v |-> v]
Inf(sign) == [k |-> "inf", sign |-> sign]
NaN == [k |-> "nan"]

\* round(): the nearest integer to n / d for d > 0, halves to the even one.
RoundHalfEven(n, d) ==
    LET q == n \div d
        r == n - q * d
    IN IF 2 * r < d THEN q
       ELSE IF 2 * r > d THEN q + 1
       ELSE IF q % 2 = 0 THEN q ELSE q + 1

\* df['apr'] = (lineFeesAccrued / accountDailyAveragePrincipalBalance
\*              * 365 / 30.44 * 100).round(2)
apr(fees, balance) ==
    IF balance = 0
    THEN IF fees = 0 THEN NaN ELSE Inf(IF fees < 0 THEN -1 ELSE 1)
    ELSE LET sign == IF balance < 0 THEN -1 ELSE 1
         IN Finite(Rat(RoundHalfEven(sign * fees * 365000000, sign * balance * 3044), 100))

AccountsOf(data, b, v) ==
    {n \in 1..Len(data) : data[n].businessGuid = b /\ data[n].vintage = v}
AccountKeys(data) ==
    {<<data[n].businessGuid, data[n].vintage>> :
        n \in {m \in 1..Len(data) : data[m].vintage # NaT}}

RECURSIVE SumAccounts(_, _, _)
SumAccounts(data, indices, column) ==
    IF indices = {} THEN 0
    ELSE LET n == CHOOSE i \in indices : TRUE
         IN data[n][column] + SumAccounts(data, indices \ {n}, column)

RECURSIVE SumHundredths(_, _)
SumHundredths(data, indices) ==
    IF indices = {} THEN 0
    ELSE LET n == CHOOSE i \in indices : TRUE
             a == apr(data[n].lineFees, data[n].balance)
         IN (a.v.n * 100) \div a.v.d + SumHundredths(data, indices \ {n})

\* 'apr': 'mean' -- the mean of the group's values that are not NaN: NaN
\* when there is none, infinite when one of them is, NaN when infinities of
\* both signs meet.
MeanApr(data, indices) ==
    LET values == [n \in indices |-> apr(data[n].lineFees, data[n].balance)]
        known == {n \in indices : values[n].k # "nan"}
        up == {n \in known : values[n].k = "inf" /\ values[n].sign = 1}
        down == {n \in known : values[n].k = "inf" /\ values[n].sign = -1}
    IN IF known = {} THEN NaN
       ELSE IF up # {} /\ down # {} THEN NaN
       ELSE IF up # {} THEN Inf(1)
       ELSE IF down # {} THEN Inf(-1)
       ELSE Finite(Rat(SumHundredths(data, known), 100 * Cardinality(known)))

business_vintage_metrics(data) ==
    {LET members == AccountsOf(data, key[1], key[2])
     IN [businessGuid |-> key[1],
         vintage_month |-> key[2],
         \* df['limit'] = balance * 1.2, whatever other columns exist
         totalLimit |-> Rat(6 * SumAccounts(data, members, "balance"), 5),
         totalAverageDailyBalance |-> SumAccounts(data, members, "balance"),
         totalRevenue |-> SumAccounts(data, members, "lineFees")
                          + SumAccounts(data, members, "interchange"),
         avgAPR |-> MeanApr(data, members),
         accountCount |-> Cardinality(members)] : key \in AccountKeys(data)}

InitApr ==
    /\ \E m \in 0..MaxAccounts, cells \in {NoLimitColumn, LimitCells} :
           accounts \in [1..m -> AccountsWith(cells)]
    /\ aprRows = NotCalled
    /\ raw = PyNaN /\ outG = Pending /\ outR = Pending /\ outD = Pending
    /\ IdleOrders /\ IdleResolver /\ IdleBusiness
    /\ IdlePortfolio /\ IdleYield /\ IdleAnalyzer
    /\ IdleInstances

AggregateBusinessVintages ==
    /\ aprRows = NotCalled
    /\ aprRows' = [k |-> "ok", rows |-> business_vintage_metrics(accounts)]
    /\ UNCHANGED <<raw, outG, outR, outD, csv, df, statuses, resolved, tape,
                   bizRows, accounts, portfolioVars, yieldVars, analyzerVars,
                   instanceVars>>

NextApr == AggregateBusinessVintages
SpecApr == InitApr /\ [][NextApr]_vars

\* C20: every avgAPR of the business-vintage aggregation is a finite
\* number, also for a group holding a record with a zero average daily
\* balance, with or without line fees.
C20_MeanAprFinite ==
    aprRows # NotCalled => \A row \in aprRows.rows : row.avgAPR.k = "num"

\* C20 divergence: one record with line fees and a zero balance makes its
\* group's avgAPR infinite.
C20_InfiniteMeanApr ==
    /\ aprRows # NotCalled /\ Len(accounts) = 2
    /\ accounts[1].businessGuid = accounts[2].businessGuid
    /\ accounts[1].vintage = 1 /\ accounts[2].vintage = 1
    /\ accounts[1].lineFees = 1 /\ accounts[1].balance = 0
    /\ accounts[2].lineFees = 1 /\ accounts[2].balance = 2
    /\ \E row \in aprRows.rows : row.avgAPR = Inf(1)

\* C20 divergence: a group whose records all have no fees and no balance
\* has avgAPR NaN.
C20_NaNMeanApr ==
    /\ aprRows # NotCalled /\ Len(accounts) = 1
    /\ accounts[1].vintage = 1
    /\ accounts[1].lineFees = 0 /\ accounts[1].balance = 0
    /\ \E row \in aprRows.rows : row.avgAPR = NaN

\* The other numeric columns are finite, and avgAPR is where no record of
\* the group has a zero balance.
C20_FiniteWithoutZeroBalance ==
    aprRows # NotCalled =>
        \A row \in aprRows.rows :
            (\A n \in AccountsOf(accounts, row.businessGuid, row.vintage_month) :
                accounts[n].balance # 0) => row.avgAPR.k = "num"

\* The global LTV of the orders frame: total net revenue over the number of
\* distinct customers.
GlobalLtvOfOrders ==
    IF KnownCustomers = {} THEN RatOfInt(0)
    ELSE Rat(SumNetRevenue(1..Len(orders)), Cardinality(KnownCustomers))

\* C21: the LTV/CAC ratio is the global LTV divided by the global CAC where
\* the CAC is above 0 and is 0 where the CAC is 0 (no marketing spend, or no
\* customers); _calculate_global_cac raises no division error.
C21_LtvCacRatio ==
    /\ (analysis # NotCalled /\ analysis.global_cac # NotCalled) =>
          (analysis.global_cac.k = "raise" =>
              analysis.global_cac.e # "ZeroDivisionError")
    /\ CacComputed =>
        /\ analysis.global_cac.estimated_cac.n >= 0
        /\ analysis.global_cac.estimated_cac.n > 0 =>
              analysis.global_cac.ltv_cac_ratio
              = RatDiv(GlobalLtvOfOrders, analysis.global_cac.estimated_cac)
        /\ analysis.global_cac.estimated_cac.n = 0 =>
              analysis.global_cac.ltv_cac_ratio = RatOfInt(0)

\* C21 witness: two customers of LTV 2 and a marketing spend of 3 give a
\* CAC of 3/2 and a ratio of 4/3.
C21_Witness ==
    /\ CacComputed /\ Len(orders) = 2 /\ Len(bank) = 1
    /\ bank[1].category = Category(<<"Marketing">>) /\ bank[1].amount = -3
    /\ analysis.global_cac.estimated_cac = Rat(3, 2)
    /\ analysis.global_cac.ltv_cac_ratio = Rat(4, 3)

\* C21 witness: customers and no marketing spend, and marketing spend and
\* no customers, both give a CAC of 0 and a ratio of 0.
C21_ZeroCac ==
    /\ CacComputed /\ Len(bank) = 1
    /\ \/ Len(orders) = 1 /\ bank[1].category = Category(<<"Rent">>)
       \/ Len(orders) = 0 /\ bank[1].category = Category(<<"Marketing">>)
    /\ analysis.global_cac.estimated_cac = RatOfInt(0)
    /\ analysis.global_cac.ltv_cac_ratio = RatOfInt(0)

(***************************************************************************)
(* One OrdersAnalyzer instance and the calls made on it.  The instance     *)
(* holds its lazily loaded frames and its caches (Unset for None) and, for *)
(* the claims about caching, the number of loads and of computations.      *)
(* orders and bank are the two files; a bank transaction here also has its *)
(* date (a day number, NaT where it was not parsed).  The gross_amount,    *)
(* refunds, discounts and location columns are not part of an order row,   *)
(* so the entries computed from them are left out of what is returned.     *)
(***************************************************************************)
MaxSessionRows == 2

SessionOrderRows ==
    {row \in OrderRows : row.net_revenue = 2 \/ row.customer = 1}
Transaction(category, amount, date) ==
    [category |-> category, amount |-> amount, date |-> date]
SessionBanks ==
    {<<>>,
     <<Transaction(NullCategory, -3, 10)>>,
     <<Transaction(Category(<<"Marketing">>), -3, 10)>>,
     <<Transaction(Category(<<"Marketing">>), -3, NaT),
       Transaction(Category(<<"Rent">>), -3, 10)>>,
     <<Transaction(Category(<<"Marketing">>), -3, 10),
       Transaction(Category(<<"Digital ", "Marketing">>), 2, 10)>>,
     <<Transaction(Category(<<"Marketing">>), -3, 40),
       Transaction(Category(<<"Marketing">>), -3, 40)>>}

Unset == [k |-> "None"]
IsUnset(attribute) == attribute.k = "None"
Frame(rows) == [k |-> "frame", rows |-> rows]
NewOrdersAnalyzer ==
    [_orders_data |-> Unset, _bank_transactions |-> Unset,
     _cohort_analysis |-> Unset, _global_ltv |-> Unset,
     _global_aov |-> Unset, _global_cac |-> Unset,
     orders_loads |-> 0, bank_loads |-> 0,
     ltv_runs |-> 0, aov_runs |-> 0, cac_runs |-> 0]

\* What a method leaves of the instance, and what it returns.
Result(self, value) == [self |-> self, value |-> value]

\* The orders_data and bank_transactions properties.
orders_data(self) ==
    IF IsUnset(self._orders_data)
    THEN [self EXCEPT !._orders_data = Frame(orders), !.orders_loads = @ + 1]
    ELSE self
bank_transactions(self) ==
    IF IsUnset(self._bank_transactions)
    THEN [self EXCEPT !._bank_transactions = Frame(bank), !.bank_loads = @ + 1]
    ELSE self

\* body(value), with the value computed once.
Bind(value, body(_)) == CHOOSE result \in {body(v) : v \in {value}} : TRUE

self_calculate_cohort_metrics(self) ==
    Bind(orders_data(self), LAMBDA loaded :
        Result(loaded, _calculate_cohort_metrics(loaded._orders_data.rows)))

\* if self._cohort_analysis is None:
\*     self._cohort_analysis = self._calculate_cohort_metrics()
cohort_analysis(self) ==
    IF IsUnset(self._cohort_analysis)
    THEN Bind(self_calculate_cohort_metrics(self), LAMBDA r :
             [r.self EXCEPT !._cohort_analysis = r.value])
    ELSE self

self_calculate_global_ltv(self) ==
    IF IsUnset(self._global_ltv)
    THEN Bind(orders_data(self), LAMBDA loaded :
         Bind(_calculate_global_ltv(loaded._orders_data.rows), LAMBDA computed :
             Result([loaded EXCEPT !._global_ltv = computed, !.ltv_runs = @ + 1],
                    computed)))
    ELSE Result(self, self._global_ltv)

_calculate_global_aov(data) ==
    LET total_revenue == SumColumn(data, "net_revenue")
        total_orders == Len(data)
    IN [k |-> "ok",
        average_aov |-> IF total_orders > 0
                        THEN Rat(total_revenue, total_orders) ELSE RatOfInt(0),
        median_aov |-> Median(data, "net_revenue"),
        total_orders |-> total_orders,
        total_revenue |-> total_revenue]

\* Mutant of self_calculate_global_aov: it answers from the LTV cache.
global_aov_from_ltv_cache(self) ==
    IF ~IsUnset(self._global_ltv) THEN Result(self, self._global_ltv)
    ELSE Bind(orders_data(self), LAMBDA loaded :
         Bind(_calculate_global_aov(loaded._orders_data.rows), LAMBDA computed :
             Result([loaded EXCEPT !._global_aov = computed, !.aov_runs = @ + 1],
                    computed)))

self_calculate_global_aov(self) ==
    IF IsUnset(self._global_aov)
    THEN Bind(orders_data(self), LAMBDA loaded :
         Bind(_calculate_global_aov(loaded._orders_data.rows), LAMBDA computed :
             Result([loaded EXCEPT !._global_aov = computed, !.aov_runs = @ + 1],
                    computed)))
    ELSE Result(self, self._global_aov)

\* The marketing spend is read before the customers and the global LTV, so
\* nothing is cached where .str raises.
self_calculate_global_cac(self) ==
    IF IsUnset(self._global_cac)
    THEN Bind(bank_transactions(self), LAMBDA banked :
         IF StrAccessorRaises(banked._bank_transactions.rows)
         THEN Result(banked, AttributeError)
         ELSE Bind(self_calculate_global_ltv(orders_data(banked)), LAMBDA ltv :
              Bind(_calculate_global_cac(ltv.self._orders_data.rows,
                                         banked._bank_transactions.rows,
                                         ltv.value), LAMBDA computed :
                  Result([ltv.self EXCEPT !._global_cac = computed,
                                          !.cac_runs = @ + 1],
                         computed))))
    ELSE Result(self, self._global_cac)

\* ltv_data[['cohort_month', 'customer_count', 'ltv']].to_dict('records')
LtvByCohort(rows) ==
    [i \in 1..Len(rows) |->
        [cohort_month |-> rows[i].cohort_month,
         customer_count |-> rows[i].customer_count,
         ltv |-> rows[i].average_revenue_per_customer]]

_calculate_cohort_ltv(self) ==
    Bind(cohort_analysis(self), LAMBDA cached :
    Bind(self_calculate_global_ltv(cached), LAMBDA summary :
        Result(summary.self,
               [k |-> "ok",
                by_cohort |-> LtvByCohort(cached._cohort_analysis.rows),
                summary |-> summary.value])))

AovByCohort(rows) ==
    [i \in 1..Len(rows) |->
        [cohort_month |-> rows[i].cohort_month,
         customer_count |-> rows[i].customer_count,
         aov |-> Rat(rows[i].total_revenue, rows[i].total_orders)]]

_calculate_cohort_aov(self) ==
    Bind(cohort_analysis(self), LAMBDA cached :
    Bind(self_calculate_global_aov(cached), LAMBDA summary :
        Result(summary.self,
               [k |-> "ok",
                by_cohort |-> AovByCohort(cached._cohort_analysis.rows),
                summary |-> summary.value])))

\* marketing_transactions.groupby('month')['amount'].sum().abs(), looked up
\* for one month; a month without a marketing transaction maps to NaN and
\* fillna(0) makes it 0.  Transactions without a date are in no month.
RECURSIVE InMonth(_, _)
InMonth(transactions, month) ==
    IF transactions = <<>> THEN <<>>
    ELSE IF /\ Head(transactions).date # NaT
            /\ CalendarMonth(Head(transactions).date) = month
         THEN <<Head(transactions)>> \o InMonth(Tail(transactions), month)
         ELSE InMonth(Tail(transactions), month)
monthly_marketing_spend(transactions, month) ==
    Abs(SumColumn(InMonth(MarketingRows(transactions), month), "amount"))

CacByCohort(rows, transactions) ==
    [i \in 1..Len(rows) |->
        LET marketing_spend ==
                monthly_marketing_spend(transactions, rows[i].cohort_month)
        IN [cohort_month |-> rows[i].cohort_month,
            customer_count |-> rows[i].customer_count,
            marketing_spend |-> marketing_spend,
            cac |-> Rat(marketing_spend, rows[i].customer_count)]]

_calculate_cohort_cac(self) ==
    Bind(cohort_analysis(self), LAMBDA analysed :
    Bind(bank_transactions(analysed), LAMBDA cached :
        IF StrAccessorRaises(cached._bank_transactions.rows)
        THEN Result(cached, AttributeError)
        ELSE Bind(self_calculate_global_cac(cached), LAMBDA summary :
                 Result(summary.self,
                        [k |-> "ok",
                         by_cohort |-> CacByCohort(cached._cohort_analysis.rows,
                                                   cached._bank_transactions.rows),
                         summary |-> summary.value]))))

\* Series.nunique() of the categories: the distinct texts, nulls left out.
CategoriesOf(transactions) ==
    {transactions[n].category.text :
        n \in {m \in 1..Len(transactions) : ~transactions[m].category.isna}}

\* Series.mean(): a set holding the mean, empty (NaN) for no values.
Mean(rows, column) ==
    IF rows = <<>> THEN {} ELSE {Rat(SumColumn(rows, column), Len(rows))}

SummaryStats(data, customer_ltv, cac_metrics, cohort_metrics, banked) ==
    [k |-> "ok",
     total_orders |-> Len(data),
     total_customers |-> Cardinality(CustomersPresent(data)),
     average_ltv |-> IF Len(customer_ltv) > 0
                     THEN Rat(SumColumn(customer_ltv, "total_spent"),
                              Len(customer_ltv))
                     ELSE RatOfInt(0),
     average_aov |-> Mean(data, "net_revenue"),
     avg_orders_per_customer |-> Mean(customer_ltv, "order_count"),
     date_range |-> [start |-> MinCreatedAt(data), end |-> MaxCreatedAt(data)],
     net_revenue |-> SumColumn(data, "net_revenue"),
     total_revenue |-> SumColumn(data, "net_revenue"),
     average_order_value |-> Mean(data, "net_revenue"),
     bank_transactions_count |-> Len(banked._bank_transactions.rows),
     bank_transactions_categories |->
         Cardinality(CategoriesOf(banked._bank_transactions.rows)),
     average_cac |-> cac_metrics.value.estimated_cac,
     total_marketing_spend |-> cac_metrics.value.total_marketing_spend,
     ltv_cac_ratio |-> cac_metrics.value.ltv_cac_ratio,
     number_of_cohorts |-> Len(cohort_metrics.rows)]

get_summary_stats(self) ==
    Bind(orders_data(self), LAMBDA loaded :
    Bind(loaded._orders_data.rows, LAMBDA data :
    Bind(self_calculate_global_cac(loaded), LAMBDA cac_metrics :
        IF cac_metrics.value.k = "raise" THEN cac_metrics
        ELSE Bind(CustomerCohorts(data, CustomersPresent(data)), LAMBDA customer_ltv :
             Bind(_calculate_cohort_metrics(data), LAMBDA cohort_metrics :
             Bind(bank_transactions(cac_metrics.self), LAMBDA banked :
                 Result(banked,
                        SummaryStats(data, customer_ltv, cac_metrics,
                                     cohort_metrics, banked))))))))

\* analyze_orders: every step in the order of the code; an exception of a
\* step ends the call with what the earlier steps left on the instance.
analyze_orders(self) ==
    Bind(self_calculate_cohort_metrics(self), LAMBDA metrics :
    Bind([metrics.self EXCEPT !._cohort_analysis = metrics.value], LAMBDA started :
    Bind(_calculate_cohort_ltv(started), LAMBDA ltv_analysis :
    Bind(_calculate_cohort_aov(ltv_analysis.self), LAMBDA aov_analysis :
    Bind(_calculate_cohort_cac(aov_analysis.self), LAMBDA cac_analysis :
        IF cac_analysis.value.k = "raise" THEN cac_analysis
        ELSE Bind(_generate_insights(cac_analysis.self._orders_data.rows),
                  LAMBDA insights :
             IF insights.k = "raise" THEN Result(cac_analysis.self, insights)
             ELSE Bind(get_summary_stats(cac_analysis.self), LAMBDA summary_stats :
                      Result(summary_stats.self,
                             [k |-> "ok",
                              cohort_metrics |-> started._cohort_analysis,
                              lifetime_value |-> ltv_analysis.value,
                              average_order_value |-> aov_analysis.value,
                              customer_acquisition_cost |-> cac_analysis.value,
                              insights |-> insights,
                              summary_stats |-> summary_stats.value]))))))))

\* The public calls, by name.
Calls ==
    {"_calculate_cohort_ltv", "_calculate_cohort_aov", "_calculate_cohort_cac",
     "get_summary_stats", "analyze_orders"}
Call(name, self) ==
    CASE name = "_calculate_cohort_ltv" -> _calculate_cohort_ltv(self)
      [] name = "_calculate_cohort_aov" -> _calculate_cohort_aov(self)
      [] name = "_calculate_cohort_cac" -> _calculate_cohort_cac(self)
      [] name = "get_summary_stats" -> get_summary_stats(self)
      [] name = "analyze_orders" -> analyze_orders(self)

UnchangedBySession ==
    UNCHANGED <<raw, outG, outR, outD, csv, df, statuses, resolved, tape,
                bizRows, portfolioVars, yieldVars, aprVars, analyzerVars,
                loan_analyzer, lru_cache>>

Made(name) ==
    /\ analyzer # NotCalled
    /\ \E r \in {Call(name, analyzer)} :
           /\ analyzer' = r.self
           /\ returned' = [call |-> name, value |-> r.value]
    /\ UnchangedBySession

CalculateCohortLtv == Made("_calculate_cohort_ltv")
CalculateCohortAov == Made("_calculate_cohort_aov")
CalculateCohortCac == Made("_calculate_cohort_cac")
GetSummaryStats == Made("get_summary_stats")
AnalyzeOrders == Made("analyze_orders")

InitSession ==
    /\ \E m \in 0..MaxSessionRows : orders \in [1..m -> SessionOrderRows]
    /\ bank \in SessionBanks
    /\ analysis = NotCalled
    /\ analyzer = NewOrdersAnalyzer
    /\ returned = NotCalled
    /\ loan_analyzer = NotCalled /\ lru_cache = NotCalled
    /\ raw = PyNaN /\ outG = Pending /\ outR = Pending /\ outD = Pending
    /\ IdleOrders /\ IdleResolver /\ IdleBusiness
    /\ IdlePortfolio /\ IdleYield /\ IdleApr

NextSession ==
    \/ CalculateCohortLtv \/ CalculateCohortAov \/ CalculateCohortCac
    \/ GetSummaryStats \/ AnalyzeOrders

SpecSession == InitSession /\ [][NextSession]_vars

\* What the last call returned, where it was the named call and returned.
Returned(name) ==
    /\ returned # NotCalled /\ returned.call = name
    /\ returned.value.k = "ok"

\* The customer-weighted combination of the cohorts' LTV values.
RECURSIVE WeightedLtv(_)
WeightedLtv(by_cohort) ==
    IF by_cohort = <<>> THEN [sum |-> RatOfInt(0), customers |-> 0]
    ELSE LET rest == WeightedLtv(Tail(by_cohort))
             row == Head(by_cohort)
             weighted == RatMul(row.ltv, RatOfInt(row.customer_count))
         IN [sum |-> Rat(rest.sum.n * weighted.d + weighted.n * rest.sum.d,
                         rest.sum.d * weighted.d),
             customers |-> rest.customers + row.customer_count]
GlobalIsWeightedCombination(ltv) ==
    LET combined == WeightedLtv(ltv.by_cohort)
    IN ltv.summary.average_ltv
       = IF combined.customers = 0 THEN RatOfInt(0)
         ELSE RatDiv(combined.sum, RatOfInt(combined.customers))
CohortLtvIsRevenuePerCustomer(ltv) ==
    /\ {ltv.by_cohort[i].cohort_month : i \in 1..Len(ltv.by_cohort)}
       = {month \in {CalendarMonth(t) : t \in Timestamps} : CohortMembers(month) # {}}
    /\ \A i \in 1..Len(ltv.by_cohort) :
          LET members == CohortMembers(ltv.by_cohort[i].cohort_month)
          IN /\ ltv.by_cohort[i].customer_count = Cardinality(members)
             /\ ltv.by_cohort[i].ltv
                = Rat(SumNetRevenue(UNION {OrdersBy(c) : c \in members}),
                      Cardinality(members))

\* C22: _calculate_cohort_ltv returns the global LTV (total net revenue of
\* all orders over the number of distinct customers, 0 without customers)
\* and each cohort's LTV (its net revenue over its customer count), and the
\* global value is the customer-weighted combination of the cohort values.
C22_GlobalAndCohortLtv ==
    Returned("_calculate_cohort_ltv") =>
        /\ returned.value.summary.average_ltv = GlobalLtvOfOrders
        /\ CohortLtvIsRevenuePerCustomer(returned.value)
        /\ GlobalIsWeightedCombination(returned.value)

\* C22 divergence: with an order that has no customer, the global LTV of 4
\* is not the LTV of 2 of the only cohort.
C22_GlobalAboveItsOnlyCohort ==
    /\ Returned("_calculate_cohort_ltv") /\ Len(orders) = 2
    /\ orders[1] = [customer |-> 1, created_at |-> 10, net_revenue |-> 2]
    /\ orders[2] = [customer |-> NoCustomer, created_at |-> 10, net_revenue |-> 2]
    /\ returned.value.summary.average_ltv = RatOfInt(4)
    /\ returned.value.by_cohort
       = <<[cohort_month |-> 1, customer_count |-> 1, ltv |-> RatOfInt(2)]>>

\* The two quotients are as C22 says for every frame, and the global value
\* is the weighted combination for a frame in which every order has a
\* customer and every customer a dated order.
C22_HoldsForCompleteOrders ==
    Returned("_calculate_cohort_ltv") =>
        /\ returned.value.summary.average_ltv = GlobalLtvOfOrders
        /\ CohortLtvIsRevenuePerCustomer(returned.value)
        /\ (/\ \A n \in 1..Len(orders) : orders[n].customer # NoCustomer
            /\ \A c \in KnownCustomers : FirstOrder(c) # NaT)
           => GlobalIsWeightedCombination(returned.value)

\* Two cohorts of LTV 4 and 2 and one customer each, global LTV 3.
C22_TwoCohorts ==
    /\ Returned("_calculate_cohort_ltv")
    /\ Len(returned.value.by_cohort) = 2
    /\ returned.value.by_cohort[1].ltv # returned.value.by_cohort[2].ltv
    /\ GlobalIsWeightedCombination(returned.value)

\* The marketing transactions dated in a month, and what was spent on them:
\* the sum of the absolute values of their amounts.
MarketingTransactionsIn(month) ==
    {n \in MarketingTransactions :
        bank[n].date # NaT /\ CalendarMonth(bank[n].date) = month}

CohortCacIsSpendPerCustomer(by_cohort, spend(_)) ==
    /\ {by_cohort[i].cohort_month : i \in 1..Len(by_cohort)}
       = {month \in {CalendarMonth(t) : t \in Timestamps} : CohortMembers(month) # {}}
    /\ \A i \in 1..Len(by_cohort) :
          LET row == by_cohort[i]
          IN /\ row.customer_count = Cardinality(CohortMembers(row.cohort_month))
             /\ row.marketing_spend = spend(row.cohort_month)
             /\ row.cac = Rat(row.marketing_spend, row.customer_count)
             /\ MarketingTransactionsIn(row.cohort_month) = {} =>
                   row.marketing_spend = 0 /\ row.cac = RatOfInt(0)

SpendIn(month) == SumAbsoluteAmounts(MarketingTransactionsIn(month))

\* C23: each cohort's marketing spend is the marketing spend of the
\* transactions dated in the cohort's own calendar month, its CAC is that
\* spend over the cohort's customer count, and a cohort with no marketing
\* transaction in its month has spend 0 and CAC 0, never an error.
C23_CohortCac ==
    (returned # NotCalled /\ returned.call = "_calculate_cohort_cac") =>
        /\ returned.value.k = "ok"
        /\ CohortCacIsSpendPerCustomer(returned.value.by_cohort, SpendIn)

\* C23 divergence: the marketing transactions of -3 and 2 of the cohort's
\* month are reported as a spend of 1 instead of 5.
C23_MixedSignsNettedInMonth ==
    /\ Returned("_calculate_cohort_cac")
    /\ bank = <<Transaction(Category(<<"Marketing">>), -3, 10),
                Transaction(Category(<<"Digital ", "Marketing">>), 2, 10)>>
    /\ Len(orders) = 1 /\ orders[1].customer = 1 /\ orders[1].created_at = 10
    /\ returned.value.by_cohort
       = <<[cohort_month |-> 1, customer_count |-> 1, marketing_spend |-> 1,
            cac |-> RatOfInt(1)]>>

\* C23 divergence: the only transaction has no category, and the call
\* raises AttributeError instead of giving the cohort a spend of 0.
C23_NoCategoryRaises ==
    /\ returned # NotCalled /\ returned.call = "_calculate_cohort_cac"
    /\ bank = <<Transaction(NullCategory, -3, 10)>>
    /\ Len(orders) = 1 /\ orders[1].customer = 1 /\ orders[1].created_at = 10
    /\ returned.value = AttributeError

\* With the spend of a month read as the code computes it, the absolute
\* value of the month's signed sum, C23 holds for every bank frame that has
\* a category text or no row.
NetSpendIn(month) ==
    LET signed == {n \in MarketingTransactionsIn(month) : bank[n].amount < 0}
    IN Abs(SumAbsoluteAmounts(MarketingTransactionsIn(month) \ signed)
           - SumAbsoluteAmounts(signed))
C23_HoldsForNetSpend ==
    (returned # NotCalled /\ returned.call = "_calculate_cohort_cac") =>
        /\ ~StrAccessorRaises(bank) => returned.value.k = "ok"
        /\ returned.value.k = "ok" =>
              CohortCacIsSpendPerCustomer(returned.value.by_cohort, NetSpendIn)

\* A cohort whose month has no marketing transaction: spend 0 and CAC 0.
C23_NoSpendInMonth ==
    /\ Returned("_calculate_cohort_cac")
    /\ bank = <<Transaction(Category(<<"Marketing">>), -3, 40),
                Transaction(Category(<<"Marketing">>), -3, 40)>>
    /\ \E i \in 1..Len(returned.value.by_cohort) :
          /\ returned.value.by_cohort[i].cohort_month = 1
          /\ returned.value.by_cohort[i].marketing_spend = 0
          /\ returned.value.by_cohort[i].cac = RatOfInt(0)
    /\ \E i \in 1..Len(returned.value.by_cohort) :
          /\ returned.value.by_cohort[i].cohort_month = 2
          /\ returned.value.by_cohort[i].marketing_spend = 6

\* C29: what a call on an OrdersAnalyzer returns does not depend on the
\* calls made before it: it is what the same call returns on a fresh
\* analyzer over the same files; each file is loaded at most once and each
\* cached global result (LTV, AOV, CAC) is computed at most once.
C29_CallsIndependentOfHistory ==
    analyzer # NotCalled =>
        /\ analyzer.orders_loads <= 1 /\ analyzer.bank_loads <= 1
        /\ analyzer.ltv_runs <= 1 /\ analyzer.aov_runs <= 1
        /\ analyzer.cac_runs <= 1
        /\ returned # NotCalled =>
              returned.value = Call(returned.call, NewOrdersAnalyzer).value

\* C29 witness: _calculate_cohort_aov called on an analyzer whose files are
\* loaded and whose LTV and CAC are already cached by earlier calls.
C29_Witness ==
    /\ Returned("_calculate_cohort_aov")
    /\ Len(orders) = 2 /\ Len(bank) = 2
    /\ analyzer.orders_loads = 1 /\ analyzer.bank_loads = 1
    /\ analyzer.ltv_runs = 1 /\ analyzer.cac_runs = 1 /\ analyzer.aov_runs = 1
    /\ returned.value.summary = _calculate_global_aov(orders)
    /\ returned.value.summary # analyzer._global_ltv

\* C29 witness: analyze_orders raises on every call where the frame has no
\* customer, and leaves the caches of the steps before the exception.
C29_RaisesAlike ==
    /\ returned # NotCalled /\ returned.call = "analyze_orders"
    /\ returned.value = [k |-> "raise", e |-> "ZeroDivisionError"]
    /\ analyzer.cac_runs = 1

(***************************************************************************)
(* The date filter of calculate_portfolio_metrics on snapshots whose       *)
(* period end may fall anywhere in its month or be missing.                *)
(***************************************************************************)
MaxTimedSnapshots == 2

TimedSnapshots ==
    [month : Months \cup {NaT}, ending : Endings,
     accountEndingStatus : {"Current", "ChargedOff"}, balance : {2},
     lineFees : {1}, interchange : {3}]
MonthFilters == [start_date : Months \cup {NoDate}, end_date : Months \cup {NoDate}]

InitDateFilter ==
    /\ \E m \in 0..MaxTimedSnapshots : snapshots \in [1..m -> TimedSnapshots]
    /\ date_range \in MonthFilters
    /\ monthly = NotCalled
    /\ raw = PyNaN /\ outG = Pending /\ outR = Pending /\ outD = Pending
    /\ IdleOrders /\ IdleResolver /\ IdleBusiness
    /\ IdleYield /\ IdleApr /\ IdleAnalyzer
    /\ IdleInstances

SpecDateFilter == InitDateFilter /\ [][NextPortfolio]_vars

Filtered == date_range.start_date # NoDate \/ date_range.end_date # NoDate

\* The months of the returned list hold exactly the given snapshots, every
\* month with a snapshot has a row and no other row exists.
MonthsHoldExactly(kept(_)) ==
    /\ \A i \in 1..Len(monthly.rows) : monthly.rows[i].month \in Months
    /\ \A month \in Months :
           LET members == {n \in 1..Len(snapshots) :
                              snapshots[n].month = month /\ kept(n)}
               listed == {i \in 1..Len(monthly.rows) :
                             monthly.rows[i].month = month}
           IN IF members = {} THEN listed = {}
              ELSE /\ Cardinality(listed) = 1
                   /\ \A i \in listed :
                          monthly.rows[i].metrics.total_accounts
                              = Cardinality(members)

\* C24: with a start and/or end month filter the months are computed over
\* exactly the records whose period end lies between the first instant of
\* the start month and the last instant of the end month, a record that
\* ends on the last day of the end month being kept at any time of day, and
\* a record with a missing period end is in no month.
C24_DateFilter ==
    (monthly.k = "ok" /\ Filtered) => MonthsHoldExactly(InRange)

\* C24, the divergence: a record that ends on the last day of the end month
\* after midnight is dropped, and its month has no row.
C24_LastDayAfterMidnightDropped ==
    /\ monthly.k = "ok" /\ Len(snapshots) = 1
    /\ snapshots[1].month = 2 /\ snapshots[1].ending = "last day 12:00"
    /\ date_range.start_date = NoDate /\ date_range.end_date = 2
    /\ monthly.rows = <<>>

\* The snapshots the code keeps: those in range that do not end after
\* midnight of the end month's last day.
UpToLastMidnight(n) ==
    /\ InRange(n)
    /\ ~ /\ date_range.end_date # NoDate
         /\ snapshots[n].month = date_range.end_date
         /\ snapshots[n].ending = "last day 12:00"

\* C24, what the code does: with or without a filter the months hold
\* exactly the records in range that end no later than 00:00 of the end
\* month's last day; records without a period end are in no month.
C24_HoldsUpToLastMidnight ==
    monthly.k = "ok" => MonthsHoldExactly(UpToLastMidnight)

\* C24 witness: a filter on both sides that keeps a record ending at the
\* first instant of the start month and one ending at 00:00 of the end
\* month's last day.
C24_BothEndsKept ==
    /\ monthly.k = "ok" /\ Len(snapshots) = 2
    /\ date_range.start_date = 2 /\ date_range.end_date = 2
    /\ snapshots[1].month = 2 /\ snapshots[1].ending = "first day 00:00"
    /\ snapshots[2].month = 2 /\ snapshots[2].ending = "last day 00:00"
    /\ Len(monthly.rows) = 1 /\ monthly.rows[1].metrics.total_accounts = 2

\* C24 witness: a record without a period end next to a dated one, with and
\* without a filter, is in no month.
C24_MissingPeriodEndLeftOut ==
    /\ monthly.k = "ok" /\ Len(snapshots) = 2
    /\ snapshots[1].month = NaT /\ snapshots[2].month = 1
    /\ Len(monthly.rows) = 1 /\ monthly.rows[1].month = 1
    /\ monthly.rows[1].metrics.total_accounts = 1

(***************************************************************************)
(* The pre-filter of the yield calculator against its masks.               *)
(***************************************************************************)
\* C27: each of the six yield calculations returns the same result, the
\* yield and every other reported field, with filter_active true as with
\* filter_active false.
C27_FilterActiveIrrelevant ==
    yields.k = "ok" =>
        LET data == yield_preprocess_data(ydata)
            other == ~filter_active
        IN /\ yields.gross_portfolio_yield
                  = calculate_gross_portfolio_yield(data, other)
           /\ yields.net_portfolio_yield
                  = calculate_net_portfolio_yield(data, other)
           /\ yields.net_portfolio_yield_after_coc
                  = calculate_net_portfolio_yield_after_cost_of_capital(data, other)
           /\ yields.line_gross_portfolio_yield
                  = calculate_line_gross_portfolio_yield(data, other)
           /\ yields.card_gross_portfolio_yield
                  = calculate_card_gross_portfolio_yield(data, other)
           /\ yields.card_net_portfolio_yield
                  = calculate_card_net_portfolio_yield(data, other)

\* C27 witness: the yields computed with the pre-filter on a tape where it
\* drops a ChargedOff record that carries balances, next to a Current
\* record that gives a yield.
C27_Witness ==
    /\ yields.k = "ok" /\ filter_active /\ Len(ydata) = 2
    /\ ydata[1].accountEndingStatus = "ChargedOff" /\ ydata[1].account > 0
    /\ ydata[2].accountEndingStatus = "Current" /\ ydata[2].account > 0
    /\ Len(_get_filtered_data(ydata, filter_active)) = 1
    /\ yields.gross_portfolio_yield.total_balance = ydata[2].account
    /\ RatPositive(yields.gross_portfolio_yield.gross_portfolio_yield)

\* C27 witness of the unfiltered side: the same tape with the ChargedOff
\* record left in, which the masks pass over.
C27_UnfilteredPassesOver ==
    /\ yields.k = "ok" /\ ~filter_active /\ Len(ydata) = 2
    /\ ydata[1].accountEndingStatus = "ChargedOff" /\ ydata[1].account > 0
    /\ ydata[2].accountEndingStatus = "Default" /\ ydata[2].account > 0
    /\ Len(_get_filtered_data(ydata, filter_active)) = 2
    /\ yields.gross_portfolio_yield.total_balance = ydata[2].account

(***************************************************************************)
(* The limit of a business vintage against the tape's limit column.        *)
(***************************************************************************)
HasLimitField(data) ==
    data # <<>> /\ \A n \in 1..Len(data) : data[n].accountEndingLimit # {}

LimitOf(account) == CHOOSE limit \in account.accountEndingLimit : TRUE

\* The limits a group can take from the field: the sum of its accounts'
\* accountEndingLimit or the largest of them.
RECURSIVE SumLimits(_, _)
SumLimits(data, indices) ==
    IF indices = {} THEN 0
    ELSE LET n == CHOOSE i \in indices : TRUE
         IN LimitOf(data[n]) + SumLimits(data, indices \ {n})
LimitsFromField(data, members) ==
    {RatOfInt(SumLimits(data, members))}
        \cup {RatOfInt(LimitOf(data[n])) : n \in members}

BalanceProxy(data, members) == Rat(6 * SumAccounts(data, members, "balance"), 5)

\* C26: a group's total limit is the sum of 1.2 x balance over its records
\* only when the records carry no explicit limit field; when
\* accountEndingLimit is present the limit is taken from that field.
C26_LimitFromFieldWhenPresent ==
    aprRows.k = "ok" =>
        \A row \in aprRows.rows :
            LET members == AccountsOf(accounts, row.businessGuid, row.vintage_month)
            IN IF HasLimitField(accounts)
               THEN row.totalLimit \in LimitsFromField(accounts, members)
               ELSE row.totalLimit = BalanceProxy(accounts, members)

\* C26, the divergence: one account with a balance of 2 and an
\* accountEndingLimit of 5 gets a total limit of 2.4.
C26_ProxyDespiteField ==
    /\ aprRows.k = "ok" /\ Len(accounts) = 1
    /\ accounts[1].accountEndingLimit = {5} /\ accounts[1].balance = 2
    /\ \E row \in aprRows.rows : row.totalLimit = Rat(12, 5)

\* C26, what the code does: the total limit is the balance proxy on every
\* tape.
C26_HoldsForProxyAlways ==
    aprRows.k = "ok" =>
        \A row \in aprRows.rows :
            row.totalLimit
                = BalanceProxy(accounts,
                      AccountsOf(accounts, row.businessGuid, row.vintage_month))

\* C26 witness: two accounts of one group on a tape without the limit
\* column, balances 2 and 2, total limit 4.8.
C26_ProxyWithoutField ==
    /\ aprRows.k = "ok" /\ Len(accounts) = 2
    /\ ~HasLimitField(accounts)
    /\ accounts[1].balance = 2 /\ accounts[2].balance = 2
    /\ \E row \in aprRows.rows :
           row.accountCount = 2 /\ row.totalLimit = Rat(24, 5)

(***************************************************************************)
(* LoanPortfolioAnalyzer of loan_tape_analyzer.py: one instance over a     *)
(* loan tape file and the calls made on it.  The instance holds the        *)
(* loaded frame, its columns and rows, next to the cached results; every   *)
(* engine is modelled with what it leaves of the frame the caller passed.  *)
(***************************************************************************)
MaxTapeRows == 2

TapeRows ==
    {[businessGuid |-> 1, vintage |-> 1,
      accountEndingStatus |-> row.accountEndingStatus,
      snapshotBeginningAt |-> row.snapshotBeginningAt,
      snapshotEndingAt |-> row.snapshotEndingAt,
      account |-> row.account, line |-> row.line, card |-> row.card,
      lineFees |-> row.lineFees, interchange |-> row.interchange,
      rewards |-> row.rewards] :
        row \in {y \in YieldRows :
                    /\ y.accountEndingStatus \in {"Current", "ChargedOff"}
                    /\ y.snapshotEndingAt = 31
                    /\ y.account \in {0, 5}}}
TapeColumns ==
    {"businessGuid", "accountActivatedAt", "accountEndingStatus",
     "snapshotBeginningAt", "snapshotEndingAt",
     "accountDailyAveragePrincipalBalance", "lineDailyAveragePrincipalBalance",
     "cardDailyAveragePrincipalBalance", "lineFeesAccrued",
     "cardNetInterchangeAccrued", "cardRewardsAccrued"}
TapeDateRanges ==
    {[start_date |-> NoDate, end_date |-> NoDate],
     [start_date |-> 2, end_date |-> NoDate]}

DataFrame(columns, rows) == [columns |-> columns, rows |-> rows]

\* LoanDataProcessor.load_loan_tape: the file read and preprocessed.
load_loan_tape(file) == DataFrame(TapeColumns, yield_preprocess_data(file))

\* The rows as the monthly metrics read them: the month and the place in
\* the month of snapshotEndingAt, a day of a 31-day month 1.
AsSnapshots(rows) ==
    [n \in 1..Len(rows) |->
        [month |-> IF rows[n].snapshotEndingAt = NaT THEN NaT
                   ELSE (rows[n].snapshotEndingAt - 1) \div 31 + 1,
         ending |-> IF rows[n].snapshotEndingAt % 31 = 1
                    THEN "first day 00:00" ELSE "last day 00:00",
         accountEndingStatus |-> rows[n].accountEndingStatus,
         balance |-> rows[n].account,
         lineFees |-> rows[n].lineFees,
         interchange |-> rows[n].interchange]]

\* The rows as the business-vintage aggregation reads them.
AsAccounts(rows) ==
    [n \in 1..Len(rows) |->
        [businessGuid |-> rows[n].businessGuid, vintage |-> rows[n].vintage,
         lineFees |-> rows[n].lineFees, interchange |-> rows[n].interchange,
         balance |-> rows[n].account, accountEndingLimit |-> {}]]

\* What an engine leaves of the caller's frame, and what it returns.
Engine(data, value) == [data |-> data, value |-> value]

\* Mutant of PortfolioMetricsCalculator_calculate_portfolio_metrics: the
\* date filter applied to the caller's frame in place.
calculate_portfolio_metrics_in_place(data, start_date, end_date) ==
    LET snapshots_in == AsSnapshots(data.rows)
        kept == {n \in 1..Len(data.rows) :
                    /\ start_date # NoDate =>
                           NotBeforeStart(snapshots_in[n], start_date)
                    /\ end_date # NoDate =>
                           NotAfterEnd(snapshots_in[n], end_date)}
    IN Engine(DataFrame(data.columns \cup {"month"},
                        SelectSeq(data.rows,
                                  LAMBDA row : \E n \in kept : data.rows[n] = row)),
              calculate_portfolio_metrics(snapshots_in, start_date, end_date))

\* PortfolioMetricsCalculator.calculate_portfolio_metrics as its caller
\* sees it.  With a filter, data is rebound to the filtered frame and the
\* month column goes to that new frame; without one, data['month'] = ...
\* writes the column into the frame that was passed in.
PortfolioMetricsCalculator_calculate_portfolio_metrics(data, start_date, end_date) ==
    Engine(IF start_date # NoDate \/ end_date # NoDate THEN data
           ELSE DataFrame(data.columns \cup {"month"}, data.rows),
           calculate_portfolio_metrics(AsSnapshots(data.rows), start_date, end_date))

\* BusinessMetricsCalculator.calculate_business_metrics of
\* loan_tape_metrics.py: df = data.copy(), every column added to the copy.
BusinessMetricsCalculator_calculate_business_metrics(data) ==
    Engine(data, [k |-> "ok",
                  rows |-> business_vintage_metrics(AsAccounts(data.rows))])

\* YieldMetricsCalculator(data).calculate_all_yield_metrics(filter_active):
\* the constructor copies the frame.
YieldMetricsCalculator(data, active) ==
    Engine(data, calculate_all_yield_metrics(data.rows, active))

NewLoanPortfolioAnalyzer(file) ==
    [data |-> load_loan_tape(file), portfolio_metrics |-> Unset,
     business_metrics |-> Unset, yield_metrics |-> Unset, insights |-> Unset]

\* _generate_insights: the totals and the status rates, the rates divided
\* by len(self.data) without a guard.
loan_generate_insights(self) ==
    LET rows == self.data.rows
        total_revenue == SumColumn(rows, "lineFees") + SumColumn(rows, "interchange")
    IN IF Len(rows) = 0 THEN [k |-> "raise", e |-> "ZeroDivisionError"]
       ELSE [k |-> "ok",
             total_portfolio_size |-> SumColumn(rows, "account"),
             total_revenue |-> total_revenue,
             revenue_per_account |-> Rat(total_revenue, Len(rows)),
             charge_off_rate |->
                 Rat(Len(WithStatus(rows, {"ChargedOff"})), Len(rows))]

analyze_portfolio(self, start_date, end_date) ==
    LET p == PortfolioMetricsCalculator_calculate_portfolio_metrics(
                 self.data, start_date, end_date)
        b == BusinessMetricsCalculator_calculate_business_metrics(p.data)
        y == YieldMetricsCalculator(b.data, TRUE)
        computed == [self EXCEPT !.data = y.data,
                                 !.portfolio_metrics = p.value,
                                 !.business_metrics = b.value,
                                 !.yield_metrics = y.value]
        insights == loan_generate_insights(computed)
    IN IF insights.k = "raise" THEN Result(computed, insights)
       ELSE Result([computed EXCEPT !.insights = insights],
                   [k |-> "ok", portfolio_metrics |-> p.value,
                    business_metrics |-> b.value, yield_metrics |-> y.value,
                    insights |-> insights])

get_portfolio_metrics(self, start_date, end_date) ==
    LET p == PortfolioMetricsCalculator_calculate_portfolio_metrics(
                 self.data, start_date, end_date)
    IN Result([self EXCEPT !.data = p.data], p.value)

get_business_metrics(self) ==
    LET b == BusinessMetricsCalculator_calculate_business_metrics(self.data)
    IN Result([self EXCEPT !.data = b.data], b.value)

get_yield_metrics(self, active) ==
    IF IsUnset(self.yield_metrics)
    THEN LET y == YieldMetricsCalculator(self.data, active)
         IN Result([self EXCEPT !.data = y.data, !.yield_metrics = y.value],
                   y.value)
    ELSE Result(self, self.yield_metrics)

get_insights(self) ==
    IF IsUnset(self.insights)
    THEN LET insights == loan_generate_insights(self)
         IN IF insights.k = "raise" THEN Result(self, insights)
            ELSE Result([self EXCEPT !.insights = insights], insights)
    ELSE Result(self, self.insights)

UnchangedByLoanAnalyzer ==
    UNCHANGED <<raw, outG, outR, outD, csv, df, statuses, resolved, tape,
                bizRows, portfolioVars, yieldVars, aprVars, analyzerVars,
                analyzer, lru_cache>>

Answered(name, args, result) ==
    /\ loan_analyzer' = result.self
    /\ returned' = [call |-> name, args |-> args, value |-> result.value]
    /\ UnchangedByLoanAnalyzer

AnalyzePortfolio ==
    /\ loan_analyzer # NotCalled
    /\ \E range \in TapeDateRanges :
           Answered("analyze_portfolio", range,
                    analyze_portfolio(loan_analyzer, range.start_date,
                                      range.end_date))

GetPortfolioMetrics ==
    /\ loan_analyzer # NotCalled
    /\ \E range \in TapeDateRanges :
           Answered("get_portfolio_metrics", range,
                    get_portfolio_metrics(loan_analyzer, range.start_date,
                                          range.end_date))

GetBusinessMetrics ==
    /\ loan_analyzer # NotCalled
    /\ Answered("get_business_metrics", <<>>, get_business_metrics(loan_analyzer))

GetYieldMetrics ==
    /\ loan_analyzer # NotCalled
    /\ \E active \in BOOLEAN :
           Answered("get_yield_metrics", active,
                    get_yield_metrics(loan_analyzer, active))

GetInsights ==
    /\ loan_analyzer # NotCalled
    /\ Answered("get_insights", <<>>, get_insights(loan_analyzer))

\* The tape file is ydata; the instance is constructed over it.
InitLoanAnalyzer ==
    /\ \E m \in 0..MaxTapeRows : ydata \in [1..m -> TapeRows]
    /\ filter_active = FALSE /\ yields = NotCalled
    /\ loan_analyzer = NewLoanPortfolioAnalyzer(ydata)
    /\ returned = NotCalled
    /\ analyzer = NotCalled /\ lru_cache = NotCalled
    /\ raw = PyNaN /\ outG = Pending /\ outR = Pending /\ outD = Pending
    /\ IdleOrders /\ IdleResolver /\ IdleBusiness
    /\ IdlePortfolio /\ IdleApr /\ IdleAnalyzer

NextLoanAnalyzer ==
    \/ AnalyzePortfolio \/ GetPortfolioMetrics \/ GetBusinessMetrics
    \/ GetYieldMetrics \/ GetInsights

SpecLoanAnalyzer == InitLoanAnalyzer /\ [][NextLoanAnalyzer]_vars

\* A call of the given name has returned.
Answer(name) == returned # NotCalled /\ returned.call = name
Unfiltered(range) == range.start_date = NoDate /\ range.end_date = NoDate

\* C25: every metrics engine leaves the record collection passed to it
\* unchanged: after calculate_portfolio_metrics, calculate_business_metrics
\* or a YieldMetricsCalculator call returns, with or without date filters,
\* the caller's frame has the rows, columns and values it was loaded with.
C25_InputUnchanged ==
    loan_analyzer # NotCalled => loan_analyzer.data = load_loan_tape(ydata)

\* C25, the divergence: after get_portfolio_metrics without a date filter
\* the frame of the instance has a month column it was not loaded with.
C25_MonthColumnAdded ==
    /\ Answer("get_portfolio_metrics") /\ Unfiltered(returned.args)
    /\ Len(ydata) = 2 /\ returned.value.k = "ok"
    /\ "month" \notin load_loan_tape(ydata).columns
    /\ loan_analyzer.data.columns = TapeColumns \cup {"month"}
    /\ loan_analyzer.data.rows = load_loan_tape(ydata).rows

\* C25, what the code does: the rows and their values are never changed
\* and the month column is the only one an engine adds.
C25_HoldsForRows ==
    loan_analyzer # NotCalled =>
        /\ loan_analyzer.data.rows = load_loan_tape(ydata).rows
        /\ TapeColumns \subseteq loan_analyzer.data.columns
        /\ loan_analyzer.data.columns \subseteq TapeColumns \cup {"month"}

\* C25, what the code does: only a call that computes the monthly metrics
\* without a date filter changes the frame.
C25_HoldsForOtherCalls ==
    [][(loan_analyzer # NotCalled /\ loan_analyzer'.data # loan_analyzer.data)
           => /\ returned'.call \in {"get_portfolio_metrics", "analyze_portfolio"}
              /\ Unfiltered(returned'.args)]_vars

\* C25 witness: get_portfolio_metrics with a start month on a frame no
\* earlier call has touched leaves it as loaded.
C25_FilteredCallLeavesInput ==
    /\ Answer("get_portfolio_metrics") /\ returned.args.start_date = 2
    /\ Len(ydata) = 2 /\ loan_analyzer.data = load_loan_tape(ydata)

\* C25 witness: get_business_metrics and get_yield_metrics leave the frame
\* as loaded.
C25_CopyingEnginesLeaveInput ==
    /\ Answer("get_business_metrics")
    /\ ~IsUnset(loan_analyzer.yield_metrics)
    /\ Len(ydata) = 2 /\ loan_analyzer.data = load_loan_tape(ydata)

\* C28: after any sequence of earlier calls on one LoanPortfolioAnalyzer,
\* get_yield_metrics(filter_active) returns the values of a fresh
\* YieldMetricsCalculator computation over the loaded tape with the
\* requested filter_active.
C28_YieldMetricsAsFresh ==
    Answer("get_yield_metrics") =>
        returned.value
            = YieldMetricsCalculator(load_loan_tape(ydata), returned.args).value

\* C28 witness: get_yield_metrics(False) answered from the cache that
\* analyze_portfolio filled with the default flag, on a tape with a
\* ChargedOff record and a frame that has received the month column.
C28_Witness ==
    /\ Answer("get_yield_metrics") /\ returned.args = FALSE
    /\ Len(ydata) = 2
    /\ ydata[1].accountEndingStatus = "ChargedOff" /\ ydata[1].account > 0
    /\ ydata[2].accountEndingStatus = "Current" /\ ydata[2].account > 0
    /\ ~IsUnset(loan_analyzer.portfolio_metrics)
    /\ "month" \in loan_analyzer.data.columns
    /\ returned.value = loan_analyzer.yield_metrics
    /\ returned.value = calculate_all_yield_metrics(ydata, TRUE)
    /\ RatPositive(returned.value.gross_portfolio_yield.gross_portfolio_yield)

\* C28 witness: the first call of the instance is get_yield_metrics(False)
\* and a later get_yield_metrics(True) is answered from its cache.
C28_CachedWithoutFilter ==
    /\ Answer("get_yield_metrics") /\ returned.args = TRUE
    /\ IsUnset(loan_analyzer.portfolio_metrics)
    /\ Len(ydata) = 2
    /\ ydata[1].accountEndingStatus = "ChargedOff" /\ ydata[1].account > 0
    /\ returned.value = calculate_all_yield_metrics(ydata, FALSE)

(***************************************************************************)
(* functools.lru_cache around the three decomposition functions of         *)
(* orders_data_processor.py.  Each decorated function has its own cache:   *)
(* its entries [key, result] from the least to the most recently used,     *)
(* and the misses that cache_info() counts.  The source's maxsize is 1024; *)
(* the model runs the same wrapper with a capacity of maxsize entries.     *)
(***************************************************************************)
maxsize == 2
MaxMisses == 3

Memoized == {"_extract_total_amount", "_parse_refunds", "_parse_discounts"}
MemoInputs ==
    {PyNaN, PyUnhashable, PyNum(1), PyStr(<<Num(1)>>),
     PyStr(ListText(<<PriceSet(ObjText(<<Member("shop_amount", <<Num(2)>>)>>))>>)),
     PyStr(ObjText(<<Member("amount", <<Num(2)>>),
                     Member("shop_amount", <<Num(1)>>)>>))}

\* The decorated function run on an empty cache.
Uncached(name, value) ==
    CASE name = "_extract_total_amount" -> _extract_total_amount(value)
      [] name = "_parse_refunds" -> _parse_refunds(value)
      [] name = "_parse_discounts" -> _parse_discounts(value)

EmptyCache == [entries |-> <<>>, misses |-> 0]
Memo(cache, result) == [cache |-> cache, result |-> result]

\* The entries without the one at a position.
WithoutEntry(entries, i) ==
    SubSeq(entries, 1, i - 1) \o SubSeq(entries, i + 1, Len(entries))

\* Mutant of lru_cache_wrapper: the key is the type of the argument, so a
\* str finds the entry of any other str.
lru_cache_keyed_by_type(cache, value, identical, computed) ==
    IF value.py = "unhashable" THEN Memo(cache, Raise("TypeError"))
    ELSE LET found == {i \in 1..Len(cache.entries) :
                          cache.entries[i].key.py = value.py}
         IN IF found # {}
            THEN LET i == CHOOSE j \in found : \A o \in found : j >= o
                 IN Memo([cache EXCEPT !.entries =
                              WithoutEntry(@, i) \o <<cache.entries[i]>>],
                         cache.entries[i].result)
            ELSE IF computed.k = "raise"
            THEN Memo([cache EXCEPT !.misses = @ + 1], computed)
            ELSE Memo([entries |->
                          (IF Len(cache.entries) >= maxsize
                           THEN Tail(cache.entries) ELSE cache.entries)
                          \o <<[key |-> value, result |-> computed]>>,
                       misses |-> cache.misses + 1],
                      computed)

\* The wrapper of lru_cache(maxsize) for a call with one argument.  The key
\* is hashed first, which raises TypeError for an unhashable argument.  An
\* entry is found by the key's hash and equality; NaN is not equal to
\* itself, so it is found only when the argument is the very object that
\* was stored (identical).  A hit moves the entry to the most recent place.
\* A miss runs the function: an exception leaves it and nothing is stored,
\* a result is stored, in place of the least recently used entry when the
\* cache is full.
lru_cache_wrapper(cache, value, identical, computed) ==
    IF value.py = "unhashable" THEN Memo(cache, Raise("TypeError"))
    ELSE LET found == {i \in 1..Len(cache.entries) :
                          /\ cache.entries[i].key = value
                          /\ value.py = "nan" => identical}
         IN IF found # {}
            THEN LET i == CHOOSE j \in found : \A o \in found : j >= o
                 IN Memo([cache EXCEPT !.entries =
                              WithoutEntry(@, i) \o <<cache.entries[i]>>],
                         cache.entries[i].result)
            ELSE IF computed.k = "raise"
            THEN Memo([cache EXCEPT !.misses = @ + 1], computed)
            ELSE Memo([entries |->
                          (IF Len(cache.entries) >= maxsize
                           THEN Tail(cache.entries) ELSE cache.entries)
                          \o <<[key |-> value, result |-> computed]>>,
                       misses |-> cache.misses + 1],
                      computed)

TotalMisses(caches) ==
    caches._extract_total_amount.misses + caches._parse_refunds.misses
        + caches._parse_discounts.misses

UnchangedByMemo ==
    UNCHANGED <<raw, outG, outR, outD, csv, df, statuses, resolved, tape,
                bizRows, portfolioVars, yieldVars, aprVars, analyzerVars,
                analyzer, loan_analyzer>>

\* One call of a decorated function.
MemoizedCall(name) ==
    /\ lru_cache # NotCalled
    /\ \E value \in MemoInputs, identical \in BOOLEAN :
           LET memo == lru_cache_wrapper(lru_cache[name], value, identical,
                                         Uncached(name, value))
           IN /\ TotalMisses([lru_cache EXCEPT ![name] = memo.cache]) <= MaxMisses
              /\ lru_cache' = [lru_cache EXCEPT ![name] = memo.cache]
              /\ returned' = [call |-> name, args |-> value,
                              value |-> memo.result]
    /\ UnchangedByMemo

CachedExtractTotalAmount == MemoizedCall("_extract_total_amount")
CachedParseRefunds == MemoizedCall("_parse_refunds")
CachedParseDiscounts == MemoizedCall("_parse_discounts")

InitMemo ==
    /\ lru_cache = [_extract_total_amount |-> EmptyCache,
                    _parse_refunds |-> EmptyCache,
                    _parse_discounts |-> EmptyCache]
    /\ returned = NotCalled
    /\ analyzer = NotCalled /\ loan_analyzer = NotCalled
    /\ raw = PyNaN /\ outG = Pending /\ outR = Pending /\ outD = Pending
    /\ IdleOrders /\ IdleResolver /\ IdleBusiness /\ IdleMetrics

NextMemo ==
    \/ CachedExtractTotalAmount \/ CachedParseRefunds \/ CachedParseDiscounts

SpecMemo == InitMemo /\ [][NextMemo]_vars

\* C30: after any sequence of earlier calls, evictions included, a call of
\* a memoized decomposition function with raw input x returns exactly the
\* value the uncached computation gives for x; no cache holds more than
\* maxsize entries, and every entry holds the result of its own key.
C30_MemoizedAsUncached ==
    lru_cache # NotCalled =>
        /\ \A name \in Memoized :
               /\ Len(lru_cache[name].entries) <= maxsize
               /\ \A i \in 1..Len(lru_cache[name].entries) :
                      lru_cache[name].entries[i].result
                          = Uncached(name, lru_cache[name].entries[i].key)
        /\ (returned # NotCalled /\ returned.call \in Memoized) =>
               returned.value = Uncached(returned.call, returned.args)

\* C30 witness: _extract_total_amount, which stores a result at every
\* miss, has missed more often than its cache holds entries, so an entry
\* was evicted; the cache is full, the line items that were asked for last
\* are its most recent entry next to another string's result, and the call
\* returned the line items' total.
C30_Witness ==
    /\ returned # NotCalled /\ returned.call = "_extract_total_amount"
    /\ lru_cache._extract_total_amount.misses > maxsize
    /\ Len(lru_cache._extract_total_amount.entries) = maxsize
    /\ lru_cache._extract_total_amount.entries[maxsize].key = returned.args
    /\ lru_cache._extract_total_amount.entries[1].key.py = "str"
    /\ lru_cache._extract_total_amount.entries[1].result = Float(0)
    /\ returned.args.py = "str"
    /\ returned.value = Float(2)

\* C30 witness: the same string cached by two functions with two results.
C30_OneCachePerFunction ==
    /\ returned # NotCalled /\ returned.call = "_parse_discounts"
    /\ returned.value = Float(2)
    /\ \E i \in 1..Len(lru_cache._parse_refunds.entries) :
           /\ lru_cache._parse_refunds.entries[i].key = returned.args
           /\ lru_cache._parse_refunds.entries[i].result = Float(1)

\* C30 witness: an exception is not stored, the bare number raises again
\* from the function.
C30_ExceptionNotCached ==
    /\ returned # NotCalled /\ returned.call = "_parse_refunds"
    /\ returned.args = PyNum(1)
    /\ returned.value = Raise("AttributeError")
    /\ lru_cache._parse_refunds.misses = 2
    /\ lru_cache._parse_refunds.entries = <<>>

\* C30 witness: two NaN objects both stored, each with the result 0.0.
C30_TwoNaNEntries ==
    /\ returned # NotCalled /\ returned.call = "_extract_total_amount"
    /\ Len(lru_cache._extract_total_amount.entries) = 2
    /\ \A i \in 1..2 : lru_cache._extract_total_amount.entries[i].key = PyNaN
    /\ returned.value = Float(0)

====
